---- MODULE Spec2Model ----
(***************************************************************************)
(* Discount engine of the oct-playground-demo application.                 *)
(*                                                                         *)
(* Numbers.  The TypeScript code computes with IEEE doubles; the model     *)
(* computes with exact fixed-point integers:                               *)
(*   - a discount fraction f is the integer f * Scale (0.325 is 3250),     *)
(*   - a seasonal multiplier m is the integer m * MultScale (1.5 is 15),   *)
(*   - an order amount is a whole number of dollars,                       *)
(*   - a computed price (finalAmount, discountedAmount, ...) is the        *)
(*     integer price * Scale, written Money(dollars) below.                *)
(* Dates are [month, date] as Date.getMonth() (0 = January) and            *)
(* Date.getDate() return them.                                             *)
(***************************************************************************)
EXTENDS Integers, Sequences, FiniteSets, TLC

VARIABLES
    context,        \* DiscountContext handed to the calculator / validator
    requestedType,  \* customer type of the request before any downgrade
    op,             \* last operation applied to the context
    calcResult,     \* DiscountResult of calculateTieredDiscount
    validation,     \* ValidationResult of validateDiscountRequest
    now,            \* the server's clock (new Date()), in days since start-up
    promoCodes,     \* promo-code-rules.ts: Map<string, PromoCode>
    orders,         \* OrderHistoryStore.orders: Map<string, Order>
    customerOrders, \* OrderHistoryStore.customerOrders: Map<string, string[]>
    nextOrderId,    \* the next identifier randomUUID() hands out
    handled,        \* number of requests the server has answered
    request,        \* body of the last POST /api/calculate-discount
    response,       \* the answer to it
    inflight,       \* calculate-discount requests received and not yet handled
    promoCall,      \* the last promo-code call or promo-code route, with its result
    orderCall,      \* the last call of the OrderHistoryStore, with its result
    customers,      \* CustomerStore.customers: Map<string, Customer>
    emailIndex,     \* CustomerStore.emailIndex: Map<string, string>
    nextCustomerId, \* the next identifier generateId() hands out
    customerCall,   \* the last call of the CustomerStore, with its result
    carts,          \* ShoppingCartStore.carts: Map<string, Cart>
    customerCarts,  \* ShoppingCartStore.customerCarts: Map<string, string>
    nextCartId,     \* the next identifier generateCartId() hands out
    cartCall        \* the last call of the ShoppingCartStore, with its result

calcVars == <<context, requestedType, op, calcResult, validation>>

serverVars == <<now, promoCodes, orders, customerOrders, nextOrderId, handled,
                request, response, inflight, promoCall>>

storeVars == <<orderCall, customers, emailIndex, nextCustomerId, customerCall,
               carts, customerCarts, nextCartId, cartCall>>

vars == <<calcVars, serverVars, storeVars>>

----------------------------------------------------------------------------
(* Bounds of the model *)

\* amounts are drawn within MaxDelta dollars of every threshold of the rules
MaxDelta == 1

\* requests the server answers in one run
MaxRequests == 1

\* times the clock jumps forward in one run
MaxClockJumps == 1

\* clients that may have a calculate-discount request in flight at once
MaxClients == 2

\* orders the order history store takes on its own
MaxOrders == 3

\* customers the customer store creates in one run
MaxCustomers == 2

\* carts the cart store creates in one run
MaxCarts == 2

\* the largest quantity addItem brings a line of a cart to
MaxQuantity == 2

----------------------------------------------------------------------------
(* Number representation *)

Scale == 10000

MultScale == 10

Money(dollars) == dollars * Scale

----------------------------------------------------------------------------
(* Inputs *)

CustomerTypes == {"REGULAR", "LOYALTY", "VIP", "ENTERPRISE"}

\* customerType is a plain string at the validator's boundary
CustomerTypeStrings == CustomerTypes \cup {"BOGUS"}

\* thresholds the rules compare an amount with, plus the documented examples
AmountPoints == {-5, 0, 100, 500, 600, 1000, 5000, 10000, 50000}

Amounts == {p + d : p \in AmountPoints, d \in (0 - MaxDelta)..MaxDelta}

DaysInMonth(month) ==
    IF month = 1 THEN 28
    ELSE IF month \in {3, 5, 8, 10} THEN 30
    ELSE 31

\* the calendar around the promotional windows (October to January)
Months == {9, 10, 11, 0}

OrderDates ==
    {dt \in [month : Months, date : 1..31] : dt.date <= DaysInMonth(dt.month)}

Contexts ==
    [customerType : CustomerTypeStrings, amount : Amounts,
     orderDate : OrderDates, isPromotionalPeriod : BOOLEAN]

----------------------------------------------------------------------------
(* discount-rules.ts: the tiered discount calculator *)

getBaseDiscount(customerType) ==
    CASE customerType = "ENTERPRISE" -> 1500
      [] customerType = "VIP" -> 1000
      [] customerType = "LOYALTY" -> 500
      [] OTHER -> 0

\* faulty variant: the thresholds are compared exclusively
getTierBonus_exclusive(amount) ==
    IF amount > 1000 THEN 1000
    ELSE IF amount > 500 THEN 500
    ELSE 0

\* faulty variant: the two upper bands are swapped
getTierBonus_swapped(amount) ==
    IF amount >= 1000 THEN 500
    ELSE IF amount >= 500 THEN 1000
    ELSE 0

getTierBonus(amount) ==
    IF amount >= 1000 THEN 1000
    ELSE IF amount >= 500 THEN 500
    ELSE 0

\* faulty variant: every cap is 0.35 lower
getMaxDiscountForCustomerType_lowered(customerType) ==
    CASE customerType = "ENTERPRISE" -> [isNull |-> TRUE, value |-> 0]
      [] customerType = "VIP" -> [isNull |-> FALSE, value |-> 2500]
      [] customerType = "LOYALTY" -> [isNull |-> FALSE, value |-> 1500]
      [] customerType = "REGULAR" -> [isNull |-> FALSE, value |-> 500]
      [] OTHER -> [isNull |-> FALSE, value |-> 500]

\* number | null: isNull stands for the null return value
getMaxDiscountForCustomerType(customerType) ==
    CASE customerType = "ENTERPRISE" -> [isNull |-> TRUE, value |-> 0]
      [] customerType = "VIP" -> [isNull |-> FALSE, value |-> 6000]
      [] customerType = "LOYALTY" -> [isNull |-> FALSE, value |-> 5000]
      [] customerType = "REGULAR" -> [isNull |-> FALSE, value |-> 4000]
      [] OTHER -> [isNull |-> FALSE, value |-> 4000]

\* the result record of calculateTieredDiscount, from its intermediate values
DiscountResult(ctx, baseDiscount, tierBonus, seasonalMultiplier, preCap, appliedCap, maxDiscount) ==
    LET totalDiscount == IF appliedCap THEN maxDiscount.value ELSE preCap
        finalAmount == ctx.amount * (Scale - totalDiscount)
        savingsAmount == Money(ctx.amount) - finalAmount
    IN  [baseDiscount |-> baseDiscount,
         tierBonus |-> tierBonus,
         seasonalMultiplier |-> seasonalMultiplier,
         totalDiscount |-> totalDiscount,
         finalAmount |-> finalAmount,
         originalAmount |-> Money(ctx.amount),
         savingsAmount |-> savingsAmount,
         appliedCap |-> appliedCap]

\* faulty variant: the tier bonus is scaled by the seasonal multiplier as well
calculateTieredDiscount_scaledTier(ctx) ==
    LET baseDiscount == getBaseDiscount(ctx.customerType)
        tierBonus == getTierBonus(ctx.amount)
        seasonalMultiplier == IF ctx.isPromotionalPeriod THEN 20 ELSE 10
        preCap == ((baseDiscount + tierBonus) * seasonalMultiplier) \div MultScale
        maxDiscount == getMaxDiscountForCustomerType(ctx.customerType)
        appliedCap == (~maxDiscount.isNull) /\ preCap > maxDiscount.value
    IN  DiscountResult(ctx, baseDiscount, tierBonus, seasonalMultiplier,
                       preCap, appliedCap, maxDiscount)

\* faulty variant: the cap is applied whenever the type has one
calculateTieredDiscount_alwaysCap(ctx) ==
    LET baseDiscount == getBaseDiscount(ctx.customerType)
        tierBonus == getTierBonus(ctx.amount)
        seasonalMultiplier == IF ctx.isPromotionalPeriod THEN 20 ELSE 10
        preCap == ((baseDiscount * seasonalMultiplier) \div MultScale) + tierBonus
        maxDiscount == getMaxDiscountForCustomerType(ctx.customerType)
        appliedCap == ~maxDiscount.isNull
    IN  DiscountResult(ctx, baseDiscount, tierBonus, seasonalMultiplier,
                       preCap, appliedCap, maxDiscount)

calculateTieredDiscount(ctx) ==
    LET baseDiscount == getBaseDiscount(ctx.customerType)
        tierBonus == getTierBonus(ctx.amount)
        seasonalMultiplier == IF ctx.isPromotionalPeriod THEN 20 ELSE 10
        preCap == ((baseDiscount * seasonalMultiplier) \div MultScale) + tierBonus
        maxDiscount == getMaxDiscountForCustomerType(ctx.customerType)
        appliedCap == (~maxDiscount.isNull) /\ preCap > maxDiscount.value
    IN  DiscountResult(ctx, baseDiscount, tierBonus, seasonalMultiplier,
                       preCap, appliedCap, maxDiscount)

----------------------------------------------------------------------------
(* validation-rules.ts: request validation *)

ErrAmount == "Order amount must be greater than zero"

ErrCustomerType == "Invalid customer type"

WarnDowngrade == "Order below $5000 minimum for ENTERPRISE. Applying VIP pricing instead."

WarnSeasonal == "Orders under $100 do not qualify for seasonal multiplier during promotions"

WarnLargeOrder == "Large order flagged for manual review. Discount will be applied pending approval."

checkPromotionalPeriod(orderDate) ==
    LET month == orderDate.month
        date == orderDate.date
    IN  \/ (month = 10 /\ date >= 24 /\ date <= 30)
        \/ (month = 11 /\ date >= 1 /\ date <= 5)
        \/ (month = 11 /\ date >= 15)

\* errors.push / warnings.push, guarded by the rule's condition
PushIf(list, cond, msg) == IF cond THEN Append(list, msg) ELSE list

\* faulty variant: the rules short-circuit at the first error
validateDiscountRequest_shortCircuit(customerType, amount, orderDate) ==
    IF amount <= 0
    THEN [isValid |-> FALSE, errors |-> <<ErrAmount>>, warnings |-> <<>>]
    ELSE IF customerType \notin CustomerTypes
    THEN [isValid |-> FALSE, errors |-> <<ErrCustomerType>>, warnings |-> <<>>]
    ELSE LET w3 == PushIf(<<>>, customerType = "ENTERPRISE" /\ amount < 5000, WarnDowngrade)
             w4 == PushIf(w3, checkPromotionalPeriod(orderDate) /\ amount < 100, WarnSeasonal)
             w6 == PushIf(w4, amount > 50000, WarnLargeOrder)
         IN  [isValid |-> TRUE, errors |-> <<>>, warnings |-> w6]

\* faulty variant: a request is valid only when it raises no warning either
validateDiscountRequest_strict(customerType, amount, orderDate) ==
    LET e1 == PushIf(<<>>, amount <= 0, ErrAmount)
        errors == PushIf(e1, customerType \notin CustomerTypes, ErrCustomerType)
        w3 == PushIf(<<>>, customerType = "ENTERPRISE" /\ amount < 5000, WarnDowngrade)
        w4 == PushIf(w3, checkPromotionalPeriod(orderDate) /\ amount < 100, WarnSeasonal)
        warnings == PushIf(w4, amount > 50000, WarnLargeOrder)
    IN  [isValid |-> Len(errors) = 0 /\ Len(warnings) = 0,
         errors |-> errors, warnings |-> warnings]

\* faulty variant: the large-order review starts at 50000 instead of above it
validateDiscountRequest_reviewFrom(customerType, amount, orderDate) ==
    LET e1 == PushIf(<<>>, amount <= 0, ErrAmount)
        errors == PushIf(e1, customerType \notin CustomerTypes, ErrCustomerType)
        w3 == PushIf(<<>>, customerType = "ENTERPRISE" /\ amount < 5000, WarnDowngrade)
        w4 == PushIf(w3, checkPromotionalPeriod(orderDate) /\ amount < 100, WarnSeasonal)
        warnings == PushIf(w4, amount >= 50000, WarnLargeOrder)
    IN  [isValid |-> Len(errors) = 0, errors |-> errors, warnings |-> warnings]

validateDiscountRequest(customerType, amount, orderDate) ==
    LET e1 == PushIf(<<>>, amount <= 0, ErrAmount)
        errors == PushIf(e1, customerType \notin CustomerTypes, ErrCustomerType)
        w3 == PushIf(<<>>, customerType = "ENTERPRISE" /\ amount < 5000, WarnDowngrade)
        isPromotionalPeriod == checkPromotionalPeriod(orderDate)
        w4 == PushIf(w3, isPromotionalPeriod /\ amount < 100, WarnSeasonal)
        warnings == PushIf(w4, amount > 50000, WarnLargeOrder)
    IN  [isValid |-> Len(errors) = 0, errors |-> errors, warnings |-> warnings]

\* faulty variant: the minimum is compared inclusively
getEffectiveCustomerType_inclusive(customerType, amount) ==
    IF customerType = "ENTERPRISE" /\ amount <= 5000 THEN "VIP" ELSE customerType

getEffectiveCustomerType(customerType, amount) ==
    IF customerType = "ENTERPRISE" /\ amount < 5000 THEN "VIP" ELSE customerType

\* faulty variant: the order minimum of the seasonal multiplier is dropped
qualifiesForSeasonalMultiplier_noMinimum(amount, orderDate) ==
    checkPromotionalPeriod(orderDate)

qualifiesForSeasonalMultiplier(amount, orderDate) ==
    LET isPromotionalPeriod == checkPromotionalPeriod(orderDate)
    IN  IF isPromotionalPeriod /\ amount < 100 THEN FALSE
        ELSE isPromotionalPeriod

----------------------------------------------------------------------------
(* backend/src/discount-rules.ts: the pricing function the server imports *)

\* the discounted price, as price * Scale
calculateDiscount(customerType, amount) ==
    IF customerType = "VIP" THEN amount * 9000
    ELSE IF customerType = "LOYALTY" THEN amount * 9500
    ELSE IF customerType = "ENTERPRISE" THEN amount * 8500
    ELSE amount * Scale

----------------------------------------------------------------------------
(* backend/src/promo-code-rules.ts: the promo code store and its rules *)

\* an optional numeric field that is not set
Undefined == -1

\* JavaScript truthiness of an optional number: neither undefined nor 0
Truthy(x) == x # Undefined /\ x # 0

\* days between validFrom and validUntil of the sample codes
ValidityDays == 365

Min(a, b) == IF a <= b THEN a ELSE b

\* String.toUpperCase on the code strings a request may carry
ToUpperCase(str) ==
    CASE str = "welcome10" -> "WELCOME10"
      [] str = "Vip25" -> "VIP25"
      [] str = "bulk50" -> "BULK50"
      [] str = "promo" -> "PROMO"
      [] OTHER -> str

AnyCustomer == [defined |-> FALSE, types |-> {}]

\* the store after initializePromoCodes() ran at clock value start
initializePromoCodes(start) ==
    LET until == start + ValidityDays
        sample(code, type, value, minOrder, maxDiscount, limit, allowed, disables, stacks) ==
            [code |-> code, discountType |-> type, discountValue |-> value,
             minOrderAmount |-> minOrder, maxDiscountAmount |-> maxDiscount,
             validFrom |-> start, validUntil |-> until,
             usageLimit |-> limit, usageCount |-> 0,
             allowedCustomerTypes |-> allowed,
             disablesTierBonuses |-> disables,
             stacksWithSeasonalMultiplier |-> stacks,
             active |-> TRUE]
    IN  [c \in {"WELCOME10", "SAVE20", "VIP25", "BULK50", "FREESHIP"} |->
            CASE c = "WELCOME10" ->
                   sample(c, "PERCENTAGE", 10, 50, Undefined, Undefined,
                          AnyCustomer, FALSE, TRUE)
              [] c = "SAVE20" ->
                   sample(c, "FIXED_AMOUNT", 20, 100, 20, Undefined,
                          AnyCustomer, FALSE, TRUE)
              [] c = "VIP25" ->
                   sample(c, "PERCENTAGE", 25, 200, Undefined, Undefined,
                          [defined |-> TRUE, types |-> {"VIP", "ENTERPRISE"}],
                          TRUE, FALSE)
              [] c = "BULK50" ->
                   sample(c, "FIXED_AMOUNT", 50, 500, 50, 100,
                          AnyCustomer, FALSE, TRUE)
              [] c = "FREESHIP" ->
                   sample(c, "FIXED_AMOUNT", 15, 75, 15, Undefined,
                          AnyCustomer, FALSE, TRUE)]

ErrInvalidCode == "Invalid promotional code"

ErrInactive == "This promotional code is no longer active"

ErrNotYetValid == "This promotional code is not yet valid"

ErrExpired == "This promotional code has expired"

ErrUsageLimit == "This promotional code has reached its usage limit"

ErrMinOrder == "Minimum order amount required for this code"

ErrCustomerTypes == "This promotional code is only available for other customers"

WarnTierBonuses == "This promotional code disables tier bonuses. Only base discount and promo code will apply."

WarnNoStacking == "This promotional code does not stack with seasonal multipliers."

\* the promoCode field of a result that carries none
NoPromoCode == [code |-> ""]

Invalid(msg) ==
    [isValid |-> FALSE, errors |-> <<msg>>, warnings |-> <<>>,
     promoCode |-> NoPromoCode]

\* faulty variant: the usage check lets one use past the limit through
validatePromoCode_offByOne(store, clock, code, customerType, orderAmount) ==
    IF ToUpperCase(code) \notin DOMAIN store THEN Invalid(ErrInvalidCode)
    ELSE
    LET promoCode == store[ToUpperCase(code)] IN
    IF ~promoCode.active THEN Invalid(ErrInactive)
    ELSE IF clock < promoCode.validFrom THEN Invalid(ErrNotYetValid)
    ELSE IF clock > promoCode.validUntil THEN Invalid(ErrExpired)
    ELSE IF Truthy(promoCode.usageLimit) /\ promoCode.usageCount > promoCode.usageLimit
         THEN Invalid(ErrUsageLimit)
    ELSE IF Truthy(promoCode.minOrderAmount) /\ orderAmount < promoCode.minOrderAmount
         THEN Invalid(ErrMinOrder)
    ELSE IF promoCode.allowedCustomerTypes.defined
            /\ customerType \notin promoCode.allowedCustomerTypes.types
         THEN Invalid(ErrCustomerTypes)
    ELSE
    LET w1 == PushIf(<<>>, promoCode.disablesTierBonuses, WarnTierBonuses)
        warnings == PushIf(w1, ~promoCode.stacksWithSeasonalMultiplier, WarnNoStacking)
    IN  [isValid |-> TRUE, errors |-> <<>>, warnings |-> warnings,
         promoCode |-> promoCode]

\* faulty variant: the minimum order amount is checked before the usage limit
validatePromoCode_minimumFirst(store, clock, code, customerType, orderAmount) ==
    IF ToUpperCase(code) \notin DOMAIN store THEN Invalid(ErrInvalidCode)
    ELSE
    LET promoCode == store[ToUpperCase(code)] IN
    IF ~promoCode.active THEN Invalid(ErrInactive)
    ELSE IF clock < promoCode.validFrom THEN Invalid(ErrNotYetValid)
    ELSE IF clock > promoCode.validUntil THEN Invalid(ErrExpired)
    ELSE IF Truthy(promoCode.minOrderAmount) /\ orderAmount < promoCode.minOrderAmount
         THEN Invalid(ErrMinOrder)
    ELSE IF Truthy(promoCode.usageLimit) /\ promoCode.usageCount >= promoCode.usageLimit
         THEN Invalid(ErrUsageLimit)
    ELSE IF promoCode.allowedCustomerTypes.defined
            /\ customerType \notin promoCode.allowedCustomerTypes.types
         THEN Invalid(ErrCustomerTypes)
    ELSE
    LET w1 == PushIf(<<>>, promoCode.disablesTierBonuses, WarnTierBonuses)
        warnings == PushIf(w1, ~promoCode.stacksWithSeasonalMultiplier, WarnNoStacking)
    IN  [isValid |-> TRUE, errors |-> <<>>, warnings |-> warnings,
         promoCode |-> promoCode]

\* faulty variant: the stacking warning is raised for the codes that do stack
validatePromoCode_stackingInverted(store, clock, code, customerType, orderAmount) ==
    IF ToUpperCase(code) \notin DOMAIN store THEN Invalid(ErrInvalidCode)
    ELSE
    LET promoCode == store[ToUpperCase(code)] IN
    IF ~promoCode.active THEN Invalid(ErrInactive)
    ELSE IF clock < promoCode.validFrom THEN Invalid(ErrNotYetValid)
    ELSE IF clock > promoCode.validUntil THEN Invalid(ErrExpired)
    ELSE IF Truthy(promoCode.usageLimit) /\ promoCode.usageCount >= promoCode.usageLimit
         THEN Invalid(ErrUsageLimit)
    ELSE IF Truthy(promoCode.minOrderAmount) /\ orderAmount < promoCode.minOrderAmount
         THEN Invalid(ErrMinOrder)
    ELSE IF promoCode.allowedCustomerTypes.defined
            /\ customerType \notin promoCode.allowedCustomerTypes.types
         THEN Invalid(ErrCustomerTypes)
    ELSE
    LET w1 == PushIf(<<>>, promoCode.disablesTierBonuses, WarnTierBonuses)
        warnings == PushIf(w1, promoCode.stacksWithSeasonalMultiplier, WarnNoStacking)
    IN  [isValid |-> TRUE, errors |-> <<>>, warnings |-> warnings,
         promoCode |-> promoCode]

\* store is the promoCodes map, clock the value of new Date()
validatePromoCode(store, clock, code, customerType, orderAmount) ==
    IF ToUpperCase(code) \notin DOMAIN store THEN Invalid(ErrInvalidCode)
    ELSE
    LET promoCode == store[ToUpperCase(code)] IN
    IF ~promoCode.active THEN Invalid(ErrInactive)
    ELSE IF clock < promoCode.validFrom THEN Invalid(ErrNotYetValid)
    ELSE IF clock > promoCode.validUntil THEN Invalid(ErrExpired)
    ELSE IF Truthy(promoCode.usageLimit) /\ promoCode.usageCount >= promoCode.usageLimit
         THEN Invalid(ErrUsageLimit)
    ELSE IF Truthy(promoCode.minOrderAmount) /\ orderAmount < promoCode.minOrderAmount
         THEN Invalid(ErrMinOrder)
    ELSE IF promoCode.allowedCustomerTypes.defined
            /\ customerType \notin promoCode.allowedCustomerTypes.types
         THEN Invalid(ErrCustomerTypes)
    ELSE
    LET w1 == PushIf(<<>>, promoCode.disablesTierBonuses, WarnTierBonuses)
        warnings == PushIf(w1, ~promoCode.stacksWithSeasonalMultiplier, WarnNoStacking)
    IN  [isValid |-> TRUE, errors |-> <<>>, warnings |-> warnings,
         promoCode |-> promoCode]

\* amounts are prices * Scale; discountPercentage is the exact quotient num / den
calculatePromoCodeDiscount(promoCode, amountAfterTierDiscount) ==
    LET raw == IF promoCode.discountType = "PERCENTAGE"
               THEN (amountAfterTierDiscount * promoCode.discountValue) \div 100
               ELSE Money(promoCode.discountValue)
        limited == IF Truthy(promoCode.maxDiscountAmount)
                   THEN Min(raw, Money(promoCode.maxDiscountAmount))
                   ELSE raw
        discountAmount == Min(limited, amountAfterTierDiscount)
        discountPercentage ==
            IF amountAfterTierDiscount > 0
            THEN [num |-> discountAmount * 100, den |-> amountAfterTierDiscount]
            ELSE [num |-> 0, den |-> 1]
    IN  [isNull |-> FALSE,
         promoCode |-> promoCode.code,
         discountAmount |-> discountAmount,
         discountPercentage |-> discountPercentage,
         appliedAfterTierDiscount |-> TRUE]

\* faulty variant: a code is deactivated by its first use
incrementPromoCodeUsage_deactivates(store, code) ==
    IF ToUpperCase(code) \in DOMAIN store
    THEN [store EXCEPT ![ToUpperCase(code)].usageCount = @ + 1,
                       ![ToUpperCase(code)].active = FALSE]
    ELSE store

incrementPromoCodeUsage(store, code) ==
    IF ToUpperCase(code) \in DOMAIN store
    THEN [store EXCEPT ![ToUpperCase(code)].usageCount = @ + 1]
    ELSE store

\* the codes of the returned array, as a set
getActivePromoCodes(store, clock) ==
    {store[c] : c \in {k \in DOMAIN store :
        /\ store[k].active
        /\ clock >= store[k].validFrom
        /\ clock <= store[k].validUntil
        /\ (~Truthy(store[k].usageLimit) \/ store[k].usageCount < store[k].usageLimit)}}

getPromoCode(store, code) ==
    IF ToUpperCase(code) \in DOMAIN store THEN store[ToUpperCase(code)]
    ELSE NoPromoCode

----------------------------------------------------------------------------
(* backend/src/order-history.ts and backend/src/server.ts *)

EmptyMap == [k \in {} |-> 0]

\* OrderHistoryStore.addOrder: [orders, customerOrders] after the call
addOrder(store, order) ==
    LET customerOrderIds ==
            IF order.customerId \in DOMAIN store.customerOrders
            THEN store.customerOrders[order.customerId]
            ELSE <<>>
        pushed == Append(customerOrderIds, order.id)
    IN  [orders |->
            [id \in DOMAIN store.orders \cup {order.id} |->
                IF id = order.id THEN order ELSE store.orders[id]],
         customerOrders |->
            [c \in DOMAIN store.customerOrders \cup {order.customerId} |->
                IF c = order.customerId THEN pushed ELSE store.customerOrders[c]]]

\* Math.round(x * 100) / 100 of the percentage 100 * part / whole, as the
\* integer rounded * 100 (part and whole are not negative)
\* (0 <= part <= whole); the quotient is taken digit by digit to stay within
\* 32-bit integers
RoundedPercentage(part, whole) ==
    LET q1 == (part * 10) \div whole
        r1 == (part * 10) % whole
        q2 == (r1 * 10) \div whole
        r2 == (r1 * 10) % whole
        q3 == (r2 * 10) \div whole
        r3 == (r2 * 10) % whole
        q4 == (r3 * 10) \div whole
        r4 == (r3 * 10) % whole
    IN  (q1 * 1000) + (q2 * 100) + (q3 * 10) + q4
            + (IF 2 * r4 >= whole THEN 1 ELSE 0)

NoPromoCodeDiscount ==
    [isNull |-> TRUE, promoCode |-> "", discountAmount |-> 0,
     discountPercentage |-> [num |-> 0, den |-> 1],
     appliedAfterTierDiscount |-> FALSE]

ErrInvalidRequest == "Invalid request. Required: customerType (string) and amount (number)"

ErrNegativeAmount == "Amount must be non-negative"

BadRequest(msg) ==
    [status |-> 400, error |-> msg, originalAmount |-> 0, discountedAmount |-> 0,
     discountPercentage |-> 0, customerType |-> "",
     promoCodeDiscount |-> NoPromoCodeDiscount, warnings |-> <<>>]

\* requests: "" stands for a missing (or empty) string field, amountIsNumber
\* for typeof amount === 'number'
RequestAmounts == {-1, 50, 100, 1000}

Requests ==
    {req \in [customerType : CustomerTypeStrings \cup {""},
              amountIsNumber : BOOLEAN,
              amount : RequestAmounts \cup {0},
              customerId : {"", "CUST-001"},
              saveToHistory : BOOLEAN,
              promoCode : {"", "welcome10", "VIP25", "NOCODE"}] :
        /\ req.amountIsNumber => req.amount \in RequestAmounts
        /\ ~req.amountIsNumber => req.amount = 0}

\* the state the handler leaves behind: the response and the two stores
Outcome(resp, store, history, nextId) ==
    [response |-> resp, promoCodes |-> store, orders |-> history.orders,
     customerOrders |-> history.customerOrders, nextOrderId |-> nextId]

\* app.post('/api/calculate-discount', ...) run on request req in the state
\* given by the clock, the promo code store, the order history and the next
\* order id.  promoAfterTier: the promo code is computed on the
\* tier-discounted amount; countSavedOnly: a use is counted only when
\* saveToHistory is set; eligibilityOnOriginal: the promo code is validated
\* against the original amount.
calculateDiscountFlow(req, clock, store, history, nextId, promoAfterTier, countSavedOnly, eligibilityOnOriginal) ==
    IF req.customerType = "" \/ ~req.amountIsNumber
    THEN Outcome(BadRequest(ErrInvalidRequest), store, history, nextId)
    ELSE IF req.amount < 0
    THEN Outcome(BadRequest(ErrNegativeAmount), store, history, nextId)
    ELSE
    LET amount == Money(req.amount)
        tierAmount == calculateDiscount(req.customerType, req.amount)
        hasPromo == req.promoCode # ""
        promoValidation ==
            validatePromoCode(store, clock, req.promoCode, req.customerType,
                              IF eligibilityOnOriginal THEN req.amount
                              ELSE tierAmount \div Scale)
    IN
    IF hasPromo /\ ~promoValidation.isValid
    THEN Outcome(BadRequest(promoValidation.errors[1]), store, history, nextId)
    ELSE
    LET promoDiscount ==
            IF hasPromo
            THEN calculatePromoCodeDiscount(promoValidation.promoCode,
                                            IF promoAfterTier THEN tierAmount ELSE amount)
            ELSE NoPromoCodeDiscount
        discountedAmount == tierAmount - promoDiscount.discountAmount
        discountPercentage ==
            IF req.amount > 0 THEN RoundedPercentage(amount - discountedAmount, amount)
            ELSE 0
        store2 ==
            IF hasPromo /\ (req.saveToHistory \/ ~countSavedOnly)
            THEN incrementPromoCodeUsage(store, req.promoCode)
            ELSE store
        result ==
            [status |-> 200, error |-> "",
             originalAmount |-> amount,
             discountedAmount |-> discountedAmount,
             discountPercentage |-> discountPercentage,
             customerType |-> req.customerType,
             promoCodeDiscount |-> promoDiscount,
             warnings |-> IF hasPromo THEN promoValidation.warnings ELSE <<>>]
        order ==
            [id |-> nextId,
             customerType |-> req.customerType,
             customerId |-> req.customerId,
             originalAmount |-> amount,
             discountedAmount |-> discountedAmount,
             discountPercentage |-> discountPercentage,
             savingsAmount |-> amount - discountedAmount,
             timestamp |-> clock,
             promoCode |-> req.promoCode]
    IN
    IF req.saveToHistory /\ req.customerId # ""
    THEN Outcome(result, store2, addOrder(history, order), nextId + 1)
    ELSE Outcome(result, store2, history, nextId)

\* faulty variant: the promo code is computed on the original amount
calculateDiscountHandler_promoOnOriginal(req, clock, store, history, nextId) ==
    calculateDiscountFlow(req, clock, store, history, nextId, FALSE, TRUE, TRUE)

\* faulty variant: a preview counts as a use of the promo code
calculateDiscountHandler_countsPreview(req, clock, store, history, nextId) ==
    calculateDiscountFlow(req, clock, store, history, nextId, TRUE, FALSE, TRUE)

\* faulty variant: the promo code is validated against the tier-discounted
\* amount
calculateDiscountHandler_eligibilityAfterTier(req, clock, store, history, nextId) ==
    calculateDiscountFlow(req, clock, store, history, nextId, TRUE, TRUE, FALSE)

calculateDiscountHandler(req, clock, store, history, nextId) ==
    calculateDiscountFlow(req, clock, store, history, nextId, TRUE, TRUE, TRUE)

ErrInvalidValidateRequest == "Invalid request. Required: code, customerType, amount"

NoPromoValidation ==
    [isValid |-> FALSE, errors |-> <<>>, warnings |-> <<>>, promoCode |-> NoPromoCode]

\* no promo-code call yet.  fn is the function or route called; code,
\* customerType and amount are its arguments (amount is
\* amountAfterTierDiscount, as price * Scale, for calculatePromoCodeDiscount);
\* the other fields hold what it returned.
NoPromoCall ==
    [fn |-> "", status |-> 0, error |-> "", code |-> "", customerType |-> "",
     amount |-> 0, validation |-> NoPromoValidation, promoCodes |-> {},
     promoCode |-> NoPromoCode, discount |-> NoPromoCodeDiscount]

\* bodies of POST /api/promo-codes/validate: "" stands for a missing field
ValidateBodies ==
    [code : {"", "bulk50", "NOCODE"}, customerType : {"REGULAR"},
     amountIsNumber : {TRUE}, amount : {1000}]

\* app.post('/api/promo-codes/validate', ...): the answer and the store it
\* leaves behind
validatePromoCodeHandler(body, clock, store) ==
    LET call == [NoPromoCall EXCEPT !.fn = "POST /api/promo-codes/validate",
                                    !.code = body.code,
                                    !.customerType = body.customerType,
                                    !.amount = body.amount]
    IN  IF body.code = "" \/ body.customerType = "" \/ ~body.amountIsNumber
        THEN [call |-> [call EXCEPT !.status = 400,
                                    !.error = ErrInvalidValidateRequest],
              promoCodes |-> store]
        ELSE [call |-> [call EXCEPT !.status = 200,
                                    !.validation =
                                        validatePromoCode(store, clock, body.code,
                                                          body.customerType,
                                                          body.amount)],
              promoCodes |-> store]

\* app.get('/api/promo-codes', ...)
getPromoCodesHandler(clock, store) ==
    [call |-> [NoPromoCall EXCEPT !.fn = "GET /api/promo-codes",
                                  !.status = 200,
                                  !.promoCodes = getActivePromoCodes(store, clock)],
     promoCodes |-> store]

----------------------------------------------------------------------------
(* The calculator and the validator applied to one request *)

NoResult ==
    [baseDiscount |-> 0, tierBonus |-> 0, seasonalMultiplier |-> 0,
     totalDiscount |-> 0, finalAmount |-> 0, originalAmount |-> 0,
     savingsAmount |-> 0, appliedCap |-> FALSE]

NoValidation == [isValid |-> FALSE, errors |-> <<>>, warnings |-> <<>>]

NoRequest ==
    [customerType |-> "", amountIsNumber |-> FALSE, amount |-> 0,
     customerId |-> "", saveToHistory |-> FALSE, promoCode |-> ""]

NoResponse ==
    [status |-> 0, error |-> "", originalAmount |-> 0, discountedAmount |-> 0,
     discountPercentage |-> 0, customerType |-> "",
     promoCodeDiscount |-> NoPromoCodeDiscount, warnings |-> <<>>]

\* no call of the OrderHistoryStore yet.  fn is the method called, id and
\* customerId its arguments; found is the boolean deleteOrder returned and
\* orders the array getCustomerOrders returned.
NoOrderCall ==
    [fn |-> "", id |-> 0, customerId |-> "", found |-> FALSE, orders |-> <<>>]

\* a customerId or cartId that names nothing
NoId == 0

\* the Customer of a result that carries none (undefined)
NoCustomer ==
    [id |-> NoId, name |-> "", email |-> "", customerType |-> "", totalOrders |-> 0]

\* no call of the CustomerStore yet.  fn is the method called, id and data
\* its arguments; outcome is "returned", "undefined" or "threw", customer the
\* Customer returned and found the boolean deleteCustomer returned.
NoCustomerCall ==
    [fn |-> "", id |-> NoId, data |-> [name |-> "", email |-> ""],
     outcome |-> "", customer |-> NoCustomer, found |-> FALSE]

\* the Cart of a result that carries none (null)
NoCart ==
    [id |-> NoId, customerId |-> "", customerType |-> "", items |-> <<>>,
     createdAt |-> 0, updatedAt |-> 0]

\* the CartSummary of a result that carries none (null)
NoCartSummary ==
    [itemCount |-> 0, subtotal |-> 0, categoryDiscounts |-> 0, tierDiscount |-> 0,
     promoCodeDiscount |-> 0, totalDiscount |-> 0, finalTotal |-> 0]

\* no call of the ShoppingCartStore yet.  fn is the method called, cartId,
\* customerId, productId and quantity its arguments; isNull tells that it
\* returned null, cart / summary / deleted hold what it returned otherwise.
NoCartCall ==
    [fn |-> "", cartId |-> NoId, customerId |-> "", productId |-> "",
     quantity |-> 0, isNull |-> TRUE, cart |-> NoCart,
     summary |-> NoCartSummary, deleted |-> FALSE]

\* the customer store and the cart store are empty after construction
StoreInit ==
    /\ orderCall = NoOrderCall
    /\ customers = EmptyMap
    /\ emailIndex = EmptyMap
    /\ nextCustomerId = 1
    /\ customerCall = NoCustomerCall
    /\ carts = EmptyMap
    /\ customerCarts = EmptyMap
    /\ nextCartId = 1
    /\ cartCall = NoCartCall

\* the server right after start-up: initializePromoCodes() has run, the
\* order history is empty
ServerInit ==
    /\ now = 0
    /\ promoCodes = initializePromoCodes(0)
    /\ orders = EmptyMap
    /\ customerOrders = EmptyMap
    /\ nextOrderId = 1
    /\ handled = 0
    /\ request = NoRequest
    /\ response = NoResponse
    /\ inflight = [c \in 1..MaxClients |-> NoRequest]
    /\ promoCall = NoPromoCall
    /\ StoreInit

CalcInit ==
    /\ requestedType = context.customerType
    /\ op = "request"
    /\ calcResult = NoResult
    /\ validation = NoValidation

Init ==
    /\ context \in Contexts
    /\ CalcInit
    /\ ServerInit

\* RequestValidator: validateDiscountRequest on the request as received
ValidateDiscountRequest ==
    /\ op = "request"
    /\ validation' = validateDiscountRequest(context.customerType, context.amount,
                                             context.orderDate)
    /\ op' = "validated"
    /\ UNCHANGED <<context, requestedType, calcResult, serverVars, storeVars>>

\* the caller replaces the customer type by the effective one before pricing
GetEffectiveCustomerType ==
    /\ op \in {"request", "validated"}
    /\ context' = [context EXCEPT
                     !.customerType = getEffectiveCustomerType(context.customerType,
                                                               context.amount)]
    /\ op' = "effective"
    /\ UNCHANGED <<requestedType, calcResult, validation, serverVars, storeVars>>

\* the caller derives the promotional flag of the context from the order
\* date and the amount before pricing
QualifiesForSeasonalMultiplier ==
    /\ op \in {"request", "validated"}
    /\ context' = [context EXCEPT
                     !.isPromotionalPeriod =
                         qualifiesForSeasonalMultiplier(context.amount,
                                                        context.orderDate)]
    /\ op' = "qualified"
    /\ UNCHANGED <<requestedType, calcResult, validation, serverVars, storeVars>>

\* DiscountCalculator: calculateTieredDiscount on the current context
CalculateTieredDiscount ==
    /\ op \in {"request", "validated", "effective", "qualified"}
    /\ calcResult' = calculateTieredDiscount(context)
    /\ op' = IF op = "effective" THEN "calculatedEffective"
             ELSE IF op = "qualified" THEN "calculatedQualified"
             ELSE "calculated"
    /\ UNCHANGED <<context, requestedType, validation, serverVars, storeVars>>

Next ==
    \/ ValidateDiscountRequest
    \/ GetEffectiveCustomerType
    \/ QualifiesForSeasonalMultiplier
    \/ CalculateTieredDiscount

Spec == Init /\ [][Next]_vars

----------------------------------------------------------------------------
(* The server answering calculate-discount requests *)

ServerSpecInit ==
    /\ context = [customerType |-> "REGULAR", amount |-> 0,
                  orderDate |-> [month |-> 0, date |-> 1],
                  isPromotionalPeriod |-> FALSE]
    /\ CalcInit
    /\ ServerInit

\* one POST /api/calculate-discount, handled to completion
PostCalculateDiscount ==
    /\ handled < MaxRequests
    /\ \E req \in Requests :
         LET out == calculateDiscountHandler(
                        req, now, promoCodes,
                        [orders |-> orders, customerOrders |-> customerOrders],
                        nextOrderId)
         IN  /\ request' = req
             /\ response' = out.response
             /\ promoCodes' = out.promoCodes
             /\ orders' = out.orders
             /\ customerOrders' = out.customerOrders
             /\ nextOrderId' = out.nextOrderId
    /\ handled' = handled + 1
    /\ UNCHANGED <<now, inflight, promoCall, calcVars, storeVars>>

\* time passes between requests: up to the last valid day of the sample
\* codes, or past it
ClockJump ==
    /\ \E days \in {ValidityDays, ValidityDays + 1} :
         /\ now + days <= MaxClockJumps * (ValidityDays + 1)
         /\ now' = now + days
    /\ UNCHANGED <<promoCodes, orders, customerOrders, nextOrderId, handled,
                   request, response, inflight, promoCall, calcVars, storeVars>>

ServerNext ==
    \/ PostCalculateDiscount
    \/ ClockJump

ServerSpec == ServerSpecInit /\ [][ServerNext]_vars

----------------------------------------------------------------------------
(* The server started with another usage limit configured on WELCOME10 *)

\* usage limits a PromoCode may carry: none, 0 or a positive number
UsageLimits == {Undefined, 0, 1}

\* the store of the sample codes with the limit set on WELCOME10, after used
\* earlier uses of the code
configuredPromoCodes(limit, used) ==
    [initializePromoCodes(0) EXCEPT !["WELCOME10"].usageLimit = limit,
                                    !["WELCOME10"].usageCount = used]

ConfiguredInit ==
    /\ context = [customerType |-> "REGULAR", amount |-> 0,
                  orderDate |-> [month |-> 0, date |-> 1],
                  isPromotionalPeriod |-> FALSE]
    /\ CalcInit
    /\ now = 0
    /\ \E limit \in UsageLimits, used \in {0, 1} :
         /\ Truthy(limit) => used <= limit
         /\ promoCodes = configuredPromoCodes(limit, used)
    /\ orders = EmptyMap
    /\ customerOrders = EmptyMap
    /\ nextOrderId = 1
    /\ handled = 0
    /\ request = NoRequest
    /\ response = NoResponse
    /\ inflight = [c \in 1..MaxClients |-> NoRequest]
    /\ promoCall = NoPromoCall
    /\ StoreInit

ConfiguredSpec == ConfiguredInit /\ [][ServerNext]_vars

----------------------------------------------------------------------------
(* The server answering concurrent clients that redeem BULK50.  Node runs  *)
(* each route callback to completion, and the calculate-discount callback  *)
(* is synchronous: requests in flight are handled one at a time, in any    *)
(* order.                                                                  *)

\* calculate-discount requests of the clients: an order that qualifies for
\* BULK50, saved or previewed
RedeemRequests ==
    [customerType : {"REGULAR"}, amountIsNumber : {TRUE}, amount : {1000},
     customerId : {""}, saveToHistory : BOOLEAN, promoCode : {"bulk50"}]

\* a request of client c reaches the server
ReceiveCalculateDiscount(c) ==
    /\ inflight[c] = NoRequest
    /\ \E req \in RedeemRequests : inflight' = [inflight EXCEPT ![c] = req]
    /\ UNCHANGED <<now, promoCodes, orders, customerOrders, nextOrderId, handled,
                   request, response, promoCall, calcVars, storeVars>>

\* the route callback runs on the request of client c
HandleCalculateDiscount(c) ==
    /\ inflight[c] # NoRequest
    /\ LET out == calculateDiscountHandler(
                      inflight[c], now, promoCodes,
                      [orders |-> orders, customerOrders |-> customerOrders],
                      nextOrderId)
       IN  /\ request' = inflight[c]
           /\ response' = out.response
           /\ promoCodes' = out.promoCodes
           /\ orders' = out.orders
           /\ customerOrders' = out.customerOrders
           /\ nextOrderId' = out.nextOrderId
    /\ inflight' = [inflight EXCEPT ![c] = NoRequest]
    /\ promoCall' = NoPromoCall
    /\ UNCHANGED <<now, handled, calcVars, storeVars>>

\* one POST /api/promo-codes/validate
PostValidatePromoCode ==
    /\ \E body \in ValidateBodies :
         LET out == validatePromoCodeHandler(body, now, promoCodes)
         IN  /\ promoCall' = out.call
             /\ promoCodes' = out.promoCodes
    /\ request' = NoRequest
    /\ response' = NoResponse
    /\ UNCHANGED <<now, orders, customerOrders, nextOrderId, handled, inflight,
                   calcVars, storeVars>>

\* one GET /api/promo-codes
GetPromoCodes ==
    /\ LET out == getPromoCodesHandler(now, promoCodes)
       IN  /\ promoCall' = out.call
           /\ promoCodes' = out.promoCodes
    /\ request' = NoRequest
    /\ response' = NoResponse
    /\ UNCHANGED <<now, orders, customerOrders, nextOrderId, handled, inflight,
                   calcVars, storeVars>>

\* a call of getPromoCode
GetPromoCode ==
    /\ \E code \in {"bulk50", "NOCODE"} :
         promoCall' = [NoPromoCall EXCEPT !.fn = "getPromoCode",
                                          !.code = code,
                                          !.promoCode = getPromoCode(promoCodes, code)]
    /\ request' = NoRequest
    /\ response' = NoResponse
    /\ UNCHANGED <<now, promoCodes, orders, customerOrders, nextOrderId, handled,
                   inflight, calcVars, storeVars>>

PromoNext ==
    \/ \E c \in 1..MaxClients : ReceiveCalculateDiscount(c)
    \/ \E c \in 1..MaxClients : HandleCalculateDiscount(c)
    \/ PostValidatePromoCode
    \/ GetPromoCodes
    \/ GetPromoCode
    \/ ClockJump

PromoSpec == ServerSpecInit /\ [][PromoNext]_vars

----------------------------------------------------------------------------
(* validatePromoCode and calculatePromoCodeDiscount called on a store that *)
(* holds one promo code, drawn from the values the PromoCode type admits,  *)
(* or on the store of the sample codes                                     *)

\* discountType, discountValue and maxDiscountAmount of the code
DiscountShapes ==
    {[discountType |-> "PERCENTAGE", discountValue |-> 10, maxDiscountAmount |-> Undefined],
     [discountType |-> "PERCENTAGE", discountValue |-> 150, maxDiscountAmount |-> Undefined],
     [discountType |-> "PERCENTAGE", discountValue |-> 50, maxDiscountAmount |-> 20],
     [discountType |-> "FIXED_AMOUNT", discountValue |-> 20, maxDiscountAmount |-> Undefined],
     [discountType |-> "FIXED_AMOUNT", discountValue |-> 20, maxDiscountAmount |-> 0]}

\* the optional limits are unset or positive here; a usage limit of 0 is the
\* subject of ConfiguredSpec
PromoCodeConfigs ==
    {[code |-> "PROMO",
      discountType |-> shape.discountType,
      discountValue |-> shape.discountValue,
      minOrderAmount |-> minOrder,
      maxDiscountAmount |-> shape.maxDiscountAmount,
      validFrom |-> from,
      validUntil |-> 1,
      usageLimit |-> limit,
      usageCount |-> used,
      allowedCustomerTypes |-> allowed,
      disablesTierBonuses |-> disables,
      stacksWithSeasonalMultiplier |-> stacks,
      active |-> active] :
        shape \in DiscountShapes, minOrder \in {Undefined, 100}, from \in {0, 1},
        limit \in {Undefined, 1}, used \in {0, 1},
        allowed \in {AnyCustomer, [defined |-> TRUE, types |-> {"VIP"}]},
        disables \in BOOLEAN, stacks \in BOOLEAN, active \in BOOLEAN}

\* values of amountAfterTierDiscount, as price * Scale
AfterTierAmounts == {0, Money(10), Money(100)}

RulesInit ==
    /\ context = [customerType |-> "REGULAR", amount |-> 0,
                  orderDate |-> [month |-> 0, date |-> 1],
                  isPromotionalPeriod |-> FALSE]
    /\ CalcInit
    /\ now \in 0..2
    /\ \/ \E config \in PromoCodeConfigs : promoCodes = [c \in {"PROMO"} |-> config]
       \/ promoCodes = initializePromoCodes(0)
    /\ orders = EmptyMap
    /\ customerOrders = EmptyMap
    /\ nextOrderId = 1
    /\ handled = 0
    /\ request = NoRequest
    /\ response = NoResponse
    /\ inflight = [c \in 1..MaxClients |-> NoRequest]
    /\ promoCall = NoPromoCall
    /\ StoreInit

\* a call of validatePromoCode
ValidatePromoCode ==
    /\ \E code \in DOMAIN promoCodes \cup {"promo", "NOCODE"},
          customerType \in {"VIP", "REGULAR"}, orderAmount \in {50, 100, 1000} :
         promoCall' = [NoPromoCall EXCEPT
                          !.fn = "validatePromoCode",
                          !.code = code,
                          !.customerType = customerType,
                          !.amount = orderAmount,
                          !.validation = validatePromoCode(promoCodes, now, code,
                                                           customerType, orderAmount)]
    /\ UNCHANGED <<now, promoCodes, orders, customerOrders, nextOrderId, handled,
                   request, response, inflight, calcVars, storeVars>>

\* a call of calculatePromoCodeDiscount on a code of the store
CalculatePromoCodeDiscount ==
    /\ \E c \in DOMAIN promoCodes, amountAfterTierDiscount \in AfterTierAmounts :
         promoCall' = [NoPromoCall EXCEPT
                          !.fn = "calculatePromoCodeDiscount",
                          !.code = c,
                          !.amount = amountAfterTierDiscount,
                          !.promoCode = promoCodes[c],
                          !.discount = calculatePromoCodeDiscount(
                                           promoCodes[c], amountAfterTierDiscount)]
    /\ UNCHANGED <<now, promoCodes, orders, customerOrders, nextOrderId, handled,
                   request, response, inflight, calcVars, storeVars>>

RulesNext ==
    \/ ValidatePromoCode
    \/ CalculatePromoCodeDiscount

RulesSpec == RulesInit /\ [][RulesNext]_vars

----------------------------------------------------------------------------
(* backend/src/order-history.ts: the order history store on its own *)

\* faulty variant: the id leaves the customer's list, the order stays stored
deleteOrder_keepsOrder(store, orderId) ==
    IF orderId \notin DOMAIN store.orders
    THEN [found |-> FALSE, store |-> store]
    ELSE LET order == store.orders[orderId]
             customerOrderIds == store.customerOrders[order.customerId]
         IN  [found |-> TRUE,
              store |->
                 [orders |-> store.orders,
                  customerOrders |->
                     [store.customerOrders EXCEPT ![order.customerId] =
                         SelectSeq(customerOrderIds, LAMBDA id : id # orderId)]]]

\* Array.prototype.indexOf: the first index holding x, 0 when there is none
IndexOf(list, x) ==
    IF \E i \in 1..Len(list) : list[i] = x
    THEN CHOOSE i \in 1..Len(list) :
            list[i] = x /\ \A j \in 1..(i - 1) : list[j] # x
    ELSE 0

\* Array.prototype.splice(index, 1)
Splice(list, index) ==
    [i \in 1..(Len(list) - 1) |-> IF i < index THEN list[i] ELSE list[i + 1]]

\* found: the boolean deleteOrder returns; store: the store it leaves behind
deleteOrder(store, orderId) ==
    IF orderId \notin DOMAIN store.orders
    THEN [found |-> FALSE, store |-> store]
    ELSE LET order == store.orders[orderId]
             remaining == [id \in DOMAIN store.orders \ {orderId} |-> store.orders[id]]
             hasList == order.customerId \in DOMAIN store.customerOrders
             customerOrderIds == store.customerOrders[order.customerId]
             index == IndexOf(customerOrderIds, orderId)
         IN  [found |-> TRUE,
              store |->
                 [orders |-> remaining,
                  customerOrders |->
                     IF hasList /\ index > 0
                     THEN [store.customerOrders EXCEPT ![order.customerId] =
                              Splice(customerOrderIds, index)]
                     ELSE store.customerOrders]]

\* Array.prototype.sort with (a, b) => b.timestamp - a.timestamp: a stable
\* sort, latest first
RECURSIVE SortByTimestampDescending(_)
SortByTimestampDescending(list) ==
    IF list = <<>> THEN <<>>
    ELSE LET sorted == SortByTimestampDescending(SubSeq(list, 1, Len(list) - 1))
             last == list[Len(list)]
             before == SelectSeq(sorted, LAMBDA o : o.timestamp >= last.timestamp)
             after == SelectSeq(sorted, LAMBDA o : o.timestamp < last.timestamp)
         IN  before \o <<last>> \o after

getCustomerOrders(store, customerId) ==
    LET orderIds == IF customerId \in DOMAIN store.customerOrders
                    THEN store.customerOrders[customerId]
                    ELSE <<>>
        stored == SelectSeq(orderIds, LAMBDA id : id \in DOMAIN store.orders)
    IN  SortByTimestampDescending([i \in 1..Len(stored) |-> store.orders[stored[i]]])

OrderCustomerIds == {"CUST-001", "CUST-002"}

\* orderHistory.addOrder(order) with a fresh order id
AddOrder ==
    /\ nextOrderId <= MaxOrders
    /\ \E customerId \in OrderCustomerIds :
         LET order == [id |-> nextOrderId,
                       customerType |-> "REGULAR",
                       customerId |-> customerId,
                       originalAmount |-> Money(100),
                       discountedAmount |-> Money(100),
                       discountPercentage |-> 0,
                       savingsAmount |-> 0,
                       timestamp |-> now,
                       promoCode |-> ""]
             store == addOrder([orders |-> orders, customerOrders |-> customerOrders], order)
         IN  /\ orders' = store.orders
             /\ customerOrders' = store.customerOrders
             /\ orderCall' = [NoOrderCall EXCEPT !.fn = "addOrder", !.id = order.id,
                                                 !.customerId = customerId, !.found = TRUE]
    /\ nextOrderId' = nextOrderId + 1
    /\ UNCHANGED <<now, promoCodes, handled, request, response, inflight, promoCall,
                   calcVars, customers, emailIndex, nextCustomerId, customerCall,
                   carts, customerCarts, nextCartId, cartCall>>

\* orderHistory.deleteOrder(orderId), also of an id the store does not hold
DeleteOrder ==
    /\ \E orderId \in 1..(MaxOrders + 1) :
         LET deleted == deleteOrder([orders |-> orders, customerOrders |-> customerOrders],
                                    orderId)
         IN  /\ orders' = deleted.store.orders
             /\ customerOrders' = deleted.store.customerOrders
             /\ orderCall' = [NoOrderCall EXCEPT !.fn = "deleteOrder", !.id = orderId,
                                                 !.found = deleted.found]
    /\ UNCHANGED <<now, promoCodes, nextOrderId, handled, request, response, inflight,
                   promoCall, calcVars, customers, emailIndex, nextCustomerId,
                   customerCall, carts, customerCarts, nextCartId, cartCall>>

\* orderHistory.getCustomerOrders(customerId), also of a customer without orders
GetCustomerOrders ==
    /\ \E customerId \in OrderCustomerIds \cup {"CUST-003"} :
         orderCall' = [NoOrderCall EXCEPT
                          !.fn = "getCustomerOrders", !.customerId = customerId,
                          !.orders = getCustomerOrders(
                                        [orders |-> orders,
                                         customerOrders |-> customerOrders], customerId)]
    /\ UNCHANGED <<now, promoCodes, orders, customerOrders, nextOrderId, handled,
                   request, response, inflight, promoCall, calcVars, customers,
                   emailIndex, nextCustomerId, customerCall, carts, customerCarts,
                   nextCartId, cartCall>>

OrderNext ==
    \/ AddOrder
    \/ DeleteOrder
    \/ GetCustomerOrders
    \/ ClockJump

OrderSpec == ServerSpecInit /\ [][OrderNext]_vars

----------------------------------------------------------------------------
(* backend/src/customer-management.ts: the customer store *)

\* String.prototype.toLowerCase on the e-mail addresses of the model
ToLowerCase(str) ==
    CASE str = "A@x.com" -> "a@x.com"
      [] OTHER -> str

\* a map with key k set to value v
MapSet(map, k, v) == [x \in DOMAIN map \cup {k} |-> IF x = k THEN v ELSE map[x]]

\* a map with key k deleted
MapDelete(map, k) == [x \in DOMAIN map \ {k} |-> map[x]]

\* outcome "threw": Error('Customer with this email already exists');
\* id stands for the value of generateId()
createCustomer(store, data, id) ==
    IF ToLowerCase(data.email) \in DOMAIN store.emailIndex
    THEN [outcome |-> "threw", customer |-> NoCustomer, store |-> store]
    ELSE LET customer == [id |-> id, name |-> data.name, email |-> data.email,
                          customerType |-> "REGULAR", totalOrders |-> 0]
         IN  [outcome |-> "created", customer |-> customer,
              store |-> [customers |-> MapSet(store.customers, id, customer),
                         emailIndex |-> MapSet(store.emailIndex,
                                               ToLowerCase(customer.email), id)]]

\* updates: each property of UpdateCustomerRequest is given or left out.
\* outcome "undefined": no such customer; "threw": the e-mail already exists
updateCustomer(store, customerId, updates) ==
    IF customerId \notin DOMAIN store.customers
    THEN [outcome |-> "undefined", customer |-> NoCustomer, store |-> store]
    ELSE
    LET customer == store.customers[customerId]
        emailChanges == /\ updates.email.given
                        /\ updates.email.value # ""
                        /\ updates.email.value # customer.email
        updatedCustomer ==
            [customer EXCEPT
                !.name = IF updates.name.given THEN updates.name.value ELSE @,
                !.email = IF updates.email.given THEN updates.email.value ELSE @]
        index == IF emailChanges
                 THEN MapSet(MapDelete(store.emailIndex, ToLowerCase(customer.email)),
                             ToLowerCase(updates.email.value), customerId)
                 ELSE store.emailIndex
    IN  IF emailChanges /\ ToLowerCase(updates.email.value) \in DOMAIN store.emailIndex
        THEN [outcome |-> "threw", customer |-> NoCustomer, store |-> store]
        ELSE [outcome |-> "updated", customer |-> updatedCustomer,
              store |-> [customers |-> MapSet(store.customers, customerId, updatedCustomer),
                         emailIndex |-> index]]

\* found: the boolean deleteCustomer returns
deleteCustomer(store, customerId) ==
    IF customerId \notin DOMAIN store.customers
    THEN [found |-> FALSE, store |-> store]
    ELSE [found |-> TRUE,
          store |-> [customers |-> MapDelete(store.customers, customerId),
                     emailIndex |-> MapDelete(store.emailIndex,
                                      ToLowerCase(store.customers[customerId].email))]]

\* e-mail addresses of the requests: two that differ in case only, and the
\* empty string
Emails == {"a@x.com", "A@x.com", "b@x.com", ""}

CreateCustomerRequests == [name : {"Ann"}, email : Emails]

UpdateCustomerRequests ==
    {u \in [name : [given : BOOLEAN, value : {"", "Bob"}],
            email : [given : BOOLEAN, value : Emails]] :
        /\ u.name.given <=> u.name.value # ""
        /\ ~u.email.given => u.email.value = ""}

CustomerStore == [customers |-> customers, emailIndex |-> emailIndex]

\* customerStore.createCustomer(data)
CreateCustomer ==
    /\ nextCustomerId <= MaxCustomers
    /\ \E data \in CreateCustomerRequests :
         LET created == createCustomer(CustomerStore, data, nextCustomerId)
         IN  /\ customers' = created.store.customers
             /\ emailIndex' = created.store.emailIndex
             /\ nextCustomerId' = IF created.outcome = "created"
                                  THEN nextCustomerId + 1 ELSE nextCustomerId
             /\ customerCall' = [NoCustomerCall EXCEPT
                                    !.fn = "createCustomer", !.data = data,
                                    !.id = created.customer.id,
                                    !.outcome = created.outcome,
                                    !.customer = created.customer]
    /\ UNCHANGED <<calcVars, serverVars, orderCall, carts, customerCarts, nextCartId,
                   cartCall>>

\* customerStore.updateCustomer(customerId, updates)
UpdateCustomer ==
    /\ \E customerId \in 1..(MaxCustomers + 1), updates \in UpdateCustomerRequests :
         LET updated == updateCustomer(CustomerStore, customerId, updates)
         IN  /\ customers' = updated.store.customers
             /\ emailIndex' = updated.store.emailIndex
             /\ customerCall' = [NoCustomerCall EXCEPT
                                    !.fn = "updateCustomer", !.id = customerId,
                                    !.data = [name |-> updates.name.value,
                                              email |-> updates.email.value],
                                    !.outcome = updated.outcome,
                                    !.customer = updated.customer]
    /\ UNCHANGED <<calcVars, serverVars, orderCall, nextCustomerId, carts,
                   customerCarts, nextCartId, cartCall>>

\* customerStore.deleteCustomer(customerId)
DeleteCustomer ==
    /\ \E customerId \in 1..(MaxCustomers + 1) :
         LET deleted == deleteCustomer(CustomerStore, customerId)
         IN  /\ customers' = deleted.store.customers
             /\ emailIndex' = deleted.store.emailIndex
             /\ customerCall' = [NoCustomerCall EXCEPT
                                    !.fn = "deleteCustomer", !.id = customerId,
                                    !.found = deleted.found]
    /\ UNCHANGED <<calcVars, serverVars, orderCall, nextCustomerId, carts,
                   customerCarts, nextCartId, cartCall>>

CustomerNext ==
    \/ CreateCustomer
    \/ UpdateCustomer
    \/ DeleteCustomer

CustomerSpec == ServerSpecInit /\ [][CustomerNext]_vars

----------------------------------------------------------------------------
(* The product catalog and the shopping cart store.  Prices are exact:      *)
(* basePrice, unitPrice and subtotal are the price * Scale.                 *)

\* initializeProducts: id, name, category and basePrice of the sample products
sampleProducts ==
    [id \in {"PROD-001", "PROD-002", "PROD-003", "PROD-004", "PROD-005",
             "PROD-006", "PROD-007", "PROD-008", "PROD-009", "PROD-010"} |->
        CASE id = "PROD-001" ->
               [id |-> id, name |-> "Wireless Headphones", category |-> "ELECTRONICS",
                basePrice |-> 1999900]
          [] id = "PROD-002" ->
               [id |-> id, name |-> "Smart Watch", category |-> "ELECTRONICS",
                basePrice |-> 2999900]
          [] id = "PROD-003" ->
               [id |-> id, name |-> "Running Shoes", category |-> "SPORTS",
                basePrice |-> 899900]
          [] id = "PROD-004" ->
               [id |-> id, name |-> "Cotton T-Shirt", category |-> "CLOTHING",
                basePrice |-> 249900]
          [] id = "PROD-005" ->
               [id |-> id, name |-> "Programming Book", category |-> "BOOKS",
                basePrice |-> 499900]
          [] id = "PROD-006" ->
               [id |-> id, name |-> "Coffee Maker", category |-> "HOME",
                basePrice |-> 799900]
          [] id = "PROD-007" ->
               [id |-> id, name |-> "Yoga Mat", category |-> "SPORTS",
                basePrice |-> 349900]
          [] id = "PROD-008" ->
               [id |-> id, name |-> "Building Blocks Set", category |-> "TOYS",
                basePrice |-> 449900]
          [] id = "PROD-009" ->
               [id |-> id, name |-> "Laptop Stand", category |-> "ELECTRONICS",
                basePrice |-> 399900]
          [] id = "PROD-010" ->
               [id |-> id, name |-> "Winter Jacket", category |-> "CLOTHING",
                basePrice |-> 1299900]]

\* initializeCategoryDiscounts: the discount percentage per category
categoryDiscounts ==
    [category \in {"ELECTRONICS", "CLOTHING", "BOOKS", "SPORTS"} |->
        CASE category = "ELECTRONICS" -> [discountPercentage |-> 5, active |-> TRUE]
          [] category = "CLOTHING" -> [discountPercentage |-> 10, active |-> TRUE]
          [] category = "BOOKS" -> [discountPercentage |-> 15, active |-> TRUE]
          [] category = "SPORTS" -> [discountPercentage |-> 8, active |-> TRUE]]

NoProduct ==
    [isNull |-> TRUE, id |-> "", name |-> "", basePrice |-> 0, categoryDiscount |-> Undefined]

\* Product | undefined
getProduct(productId) ==
    IF productId \in DOMAIN sampleProducts
    THEN LET product == sampleProducts[productId]
         IN  [isNull |-> FALSE, id |-> product.id, name |-> product.name,
              basePrice |-> product.basePrice,
              categoryDiscount |->
                 IF product.category \in DOMAIN categoryDiscounts
                    /\ categoryDiscounts[product.category].active
                 THEN categoryDiscounts[product.category].discountPercentage
                 ELSE Undefined]
    ELSE NoProduct

\* price * (1 - categoryDiscount / 100) * quantity; every price is a whole
\* number of cents, so the division is exact
DiscountedSubtotal(price, categoryDiscount, quantity) ==
    (price \div 100) * (100 - categoryDiscount) * quantity

\* the index of the line of productId in items, 0 when there is none
FindItem(items, productId) ==
    IF \E i \in 1..Len(items) : items[i].productId = productId
    THEN CHOOSE i \in 1..Len(items) :
            /\ items[i].productId = productId
            /\ \A j \in 1..(i - 1) : items[j].productId # productId
    ELSE 0

CartResult(cart, store) == [isNull |-> FALSE, cart |-> cart, store |-> store]

NullCart(store) == [isNull |-> TRUE, cart |-> NoCart, store |-> store]

\* the store with cart stored under its id
WithCart(store, cart) ==
    [carts |-> MapSet(store.carts, cart.id, cart), customerCarts |-> store.customerCarts]

\* cartId stands for the value of generateCartId()
getOrCreateCart(store, clock, customerId, customerType, cartId) ==
    IF customerId \in DOMAIN store.customerCarts
       /\ store.customerCarts[customerId] \in DOMAIN store.carts
    THEN CartResult(store.carts[store.customerCarts[customerId]], store)
    ELSE LET cart == [id |-> cartId, customerId |-> customerId,
                      customerType |-> customerType, items |-> <<>>,
                      createdAt |-> clock, updatedAt |-> clock]
         IN  CartResult(cart, [carts |-> MapSet(store.carts, cartId, cart),
                               customerCarts |->
                                  MapSet(store.customerCarts, customerId, cartId)])

addItem(store, clock, cartId, productId, quantity) ==
    IF cartId \notin DOMAIN store.carts THEN NullCart(store)
    ELSE IF getProduct(productId).isNull THEN NullCart(store)
    ELSE
    LET cart == store.carts[cartId]
        product == getProduct(productId)
        existingItem == FindItem(cart.items, productId)
        categoryDiscount == IF Truthy(product.categoryDiscount)
                            THEN product.categoryDiscount ELSE 0
        items ==
            IF existingItem > 0
            THEN [cart.items EXCEPT
                     ![existingItem] =
                        [@ EXCEPT !.quantity = @ + quantity,
                                  !.subtotal = (cart.items[existingItem].quantity + quantity)
                                                  * cart.items[existingItem].unitPrice]]
            ELSE Append(cart.items,
                    [productId |-> product.id, productName |-> product.name,
                     quantity |-> quantity, unitPrice |-> product.basePrice,
                     categoryDiscount |-> categoryDiscount,
                     subtotal |-> DiscountedSubtotal(product.basePrice,
                                                     categoryDiscount, quantity)])
        updated == [cart EXCEPT !.items = items, !.updatedAt = clock]
    IN  CartResult(updated, WithCart(store, updated))

updateItemQuantity(store, clock, cartId, productId, quantity) ==
    IF cartId \notin DOMAIN store.carts THEN NullCart(store)
    ELSE IF FindItem(store.carts[cartId].items, productId) = 0 THEN NullCart(store)
    ELSE
    LET cart == store.carts[cartId]
        item == FindItem(cart.items, productId)
        items ==
            IF quantity <= 0
            THEN SelectSeq(cart.items, LAMBDA line : line.productId # productId)
            ELSE [cart.items EXCEPT
                     ![item] =
                        [@ EXCEPT !.quantity = quantity,
                                  !.subtotal = DiscountedSubtotal(
                                                  cart.items[item].unitPrice,
                                                  cart.items[item].categoryDiscount,
                                                  quantity)]]
        updated == [cart EXCEPT !.items = items, !.updatedAt = clock]
    IN  CartResult(updated, WithCart(store, updated))

removeItem(store, clock, cartId, productId) ==
    IF cartId \notin DOMAIN store.carts THEN NullCart(store)
    ELSE
    LET cart == store.carts[cartId]
        updated == [cart EXCEPT
                       !.items = SelectSeq(@, LAMBDA line : line.productId # productId),
                       !.updatedAt = clock]
    IN  CartResult(updated, WithCart(store, updated))

clearCart(store, clock, cartId) ==
    IF cartId \notin DOMAIN store.carts THEN NullCart(store)
    ELSE
    LET updated == [store.carts[cartId] EXCEPT !.items = <<>>, !.updatedAt = clock]
    IN  CartResult(updated, WithCart(store, updated))

\* list.reduce((sum, x) => sum + x, 0)
RECURSIVE Sum(_)
Sum(list) ==
    IF list = <<>> THEN 0
    ELSE Sum(SubSeq(list, 1, Len(list) - 1)) + list[Len(list)]

\* faulty variant: itemCount is the number of lines
calculateCartSummary_countsLines(store, cartId) ==
    IF cartId \notin DOMAIN store.carts
    THEN [isNull |-> TRUE, summary |-> NoCartSummary]
    ELSE
    LET cart == store.carts[cartId]
        subtotalBeforeDiscounts ==
            Sum([i \in 1..Len(cart.items) |-> cart.items[i].unitPrice * cart.items[i].quantity])
        subtotalAfterCategory == Sum([i \in 1..Len(cart.items) |-> cart.items[i].subtotal])
        categoryDiscountTotal == subtotalBeforeDiscounts - subtotalAfterCategory
    IN  [isNull |-> FALSE,
         summary |-> [itemCount |-> Len(cart.items),
                      subtotal |-> subtotalBeforeDiscounts,
                      categoryDiscounts |-> categoryDiscountTotal,
                      tierDiscount |-> 0,
                      promoCodeDiscount |-> 0,
                      totalDiscount |-> categoryDiscountTotal,
                      finalTotal |-> subtotalAfterCategory]]

\* CartSummary | null
calculateCartSummary(store, cartId) ==
    IF cartId \notin DOMAIN store.carts
    THEN [isNull |-> TRUE, summary |-> NoCartSummary]
    ELSE
    LET cart == store.carts[cartId]
        itemCount == Sum([i \in 1..Len(cart.items) |-> cart.items[i].quantity])
        subtotalBeforeDiscounts ==
            Sum([i \in 1..Len(cart.items) |-> cart.items[i].unitPrice * cart.items[i].quantity])
        subtotalAfterCategory == Sum([i \in 1..Len(cart.items) |-> cart.items[i].subtotal])
        categoryDiscountTotal == subtotalBeforeDiscounts - subtotalAfterCategory
    IN  [isNull |-> FALSE,
         summary |-> [itemCount |-> itemCount,
                      subtotal |-> subtotalBeforeDiscounts,
                      categoryDiscounts |-> categoryDiscountTotal,
                      tierDiscount |-> 0,
                      promoCodeDiscount |-> 0,
                      totalDiscount |-> categoryDiscountTotal,
                      finalTotal |-> subtotalAfterCategory]]

\* faulty variant: the cart is deleted, the customer's mapping stays
deleteCart_keepsMapping(store, cartId) ==
    IF cartId \notin DOMAIN store.carts
    THEN [deleted |-> FALSE, store |-> store]
    ELSE [deleted |-> TRUE,
          store |-> [carts |-> MapDelete(store.carts, cartId),
                     customerCarts |-> store.customerCarts]]

\* deleted: the boolean deleteCart returns
deleteCart(store, cartId) ==
    IF cartId \notin DOMAIN store.carts
    THEN [deleted |-> FALSE, store |-> store]
    ELSE [deleted |-> TRUE,
          store |-> [carts |-> MapDelete(store.carts, cartId),
                     customerCarts |->
                        MapDelete(store.customerCarts, store.carts[cartId].customerId)]]

\* customers that ask for a cart
CartCustomerIds == {"CUST-001", "CUST-002"}

\* products of the requests: one with a category discount, one without, and
\* one the catalog does not hold
CartProductIds == {"PROD-001", "PROD-006", "PROD-999"}

\* quantities of addItem; 1 is the default of the parameter
AddQuantities == {0, 1}

ShoppingCartStore == [carts |-> carts, customerCarts |-> customerCarts]

\* the other variables of a step of the cart store
CartFrame ==
    UNCHANGED <<calcVars, promoCodes, orders, customerOrders, nextOrderId, handled,
                request, response, inflight, promoCall, orderCall, customers,
                emailIndex, nextCustomerId, customerCall>>

\* shoppingCartStore.getOrCreateCart(customerId, customerType)
GetOrCreateCart(customerIds) ==
    /\ \E customerId \in customerIds :
         LET known == /\ customerId \in DOMAIN customerCarts
                      /\ customerCarts[customerId] \in DOMAIN carts
             result == getOrCreateCart(ShoppingCartStore, now, customerId, "REGULAR",
                                       nextCartId)
         IN  /\ known \/ nextCartId <= MaxCarts
             /\ carts' = result.store.carts
             /\ customerCarts' = result.store.customerCarts
             /\ nextCartId' = IF known THEN nextCartId ELSE nextCartId + 1
             /\ cartCall' = [NoCartCall EXCEPT
                                !.fn = "getOrCreateCart", !.customerId = customerId,
                                !.cartId = result.cart.id, !.isNull = FALSE,
                                !.cart = result.cart]
    /\ UNCHANGED now
    /\ CartFrame

\* the record of a call that returns Cart | null
CartReturned(fn, cartId, productId, quantity, result) ==
    [NoCartCall EXCEPT !.fn = fn, !.cartId = cartId, !.productId = productId,
                       !.quantity = quantity, !.isNull = result.isNull,
                       !.cart = result.cart]

\* shoppingCartStore.addItem(cartId, productId, quantity)
AddItem(productIds, quantities) ==
    /\ \E cartId \in 1..(MaxCarts + 1), productId \in productIds,
          quantity \in quantities :
         LET result == addItem(ShoppingCartStore, now, cartId, productId, quantity)
         IN  /\ cartId \in DOMAIN carts =>
                   \A i \in 1..Len(carts[cartId].items) :
                      carts[cartId].items[i].productId = productId =>
                         carts[cartId].items[i].quantity + quantity <= MaxQuantity
             /\ carts' = result.store.carts
             /\ customerCarts' = result.store.customerCarts
             /\ cartCall' = CartReturned("addItem", cartId, productId, quantity, result)
    /\ UNCHANGED <<now, nextCartId>>
    /\ CartFrame

\* shoppingCartStore.updateItemQuantity(cartId, productId, quantity)
UpdateItemQuantity ==
    /\ \E cartId \in 1..(MaxCarts + 1), productId \in CartProductIds,
          quantity \in (0 - 1)..MaxQuantity :
         LET result == updateItemQuantity(ShoppingCartStore, now, cartId, productId,
                                          quantity)
         IN  /\ carts' = result.store.carts
             /\ customerCarts' = result.store.customerCarts
             /\ cartCall' = CartReturned("updateItemQuantity", cartId, productId,
                                         quantity, result)
    /\ UNCHANGED <<now, nextCartId>>
    /\ CartFrame

\* shoppingCartStore.removeItem(cartId, productId)
RemoveItem ==
    /\ \E cartId \in 1..(MaxCarts + 1), productId \in CartProductIds :
         LET result == removeItem(ShoppingCartStore, now, cartId, productId)
         IN  /\ carts' = result.store.carts
             /\ customerCarts' = result.store.customerCarts
             /\ cartCall' = CartReturned("removeItem", cartId, productId, 0, result)
    /\ UNCHANGED <<now, nextCartId>>
    /\ CartFrame

\* shoppingCartStore.clearCart(cartId)
ClearCart ==
    /\ \E cartId \in 1..(MaxCarts + 1) :
         LET result == clearCart(ShoppingCartStore, now, cartId)
         IN  /\ carts' = result.store.carts
             /\ customerCarts' = result.store.customerCarts
             /\ cartCall' = CartReturned("clearCart", cartId, "", 0, result)
    /\ UNCHANGED <<now, nextCartId>>
    /\ CartFrame

\* shoppingCartStore.calculateCartSummary(cartId)
CalculateCartSummary ==
    /\ \E cartId \in 1..(MaxCarts + 1) :
         LET result == calculateCartSummary(ShoppingCartStore, cartId)
         IN  cartCall' = [NoCartCall EXCEPT
                             !.fn = "calculateCartSummary", !.cartId = cartId,
                             !.isNull = result.isNull, !.summary = result.summary]
    /\ UNCHANGED <<now, carts, customerCarts, nextCartId>>
    /\ CartFrame

\* shoppingCartStore.deleteCart(cartId)
DeleteCart ==
    /\ \E cartId \in 1..(MaxCarts + 1) :
         LET result == deleteCart(ShoppingCartStore, cartId)
         IN  /\ carts' = result.store.carts
             /\ customerCarts' = result.store.customerCarts
             /\ cartCall' = [NoCartCall EXCEPT
                                !.fn = "deleteCart", !.cartId = cartId,
                                !.isNull = ~result.deleted,
                                !.deleted = result.deleted]
    /\ UNCHANGED <<now, nextCartId>>
    /\ CartFrame

\* one customer filling, emptying and summing up a cart
CartNext ==
    \/ GetOrCreateCart({"CUST-001"})
    \/ AddItem(CartProductIds, AddQuantities)
    \/ UpdateItemQuantity
    \/ RemoveItem
    \/ ClearCart
    \/ CalculateCartSummary
    \/ DeleteCart

CartSpec == ServerSpecInit /\ [][CartNext]_vars

\* two customers getting, filling and deleting their carts while time passes
CartLifecycleNext ==
    \/ GetOrCreateCart(CartCustomerIds)
    \/ AddItem({"PROD-006"}, {1})
    \/ DeleteCart
    \/ ClockJump

CartLifecycleSpec == ServerSpecInit /\ [][CartLifecycleNext]_vars

----------------------------------------------------------------------------
(* README: the documented promotional periods and their multipliers *)

PromotionalPeriods ==
    {[name |-> "Black Friday", month |-> 10, from |-> 29, to |-> 29, seasonalMultiplier |-> 20],
     [name |-> "Cyber Monday", month |-> 11, from |-> 2, to |-> 2, seasonalMultiplier |-> 20],
     [name |-> "Holiday Season", month |-> 11, from |-> 15, to |-> 31, seasonalMultiplier |-> 15]}

MatchingPeriods(orderDate) ==
    {p \in PromotionalPeriods :
        p.month = orderDate.month /\ p.from <= orderDate.date /\ orderDate.date <= p.to}

----------------------------------------------------------------------------
(* Properties of the calculator and the validator *)

Calculated == op \in {"calculated", "calculatedEffective"}

Count(list, msg) == Cardinality({i \in 1..Len(list) : list[i] = msg})

\* C1: for every customer type, every amount >= 0 and either promotional
\* flag, the total discount before capping is base * seasonalMultiplier +
\* tierBonus(amount): the tier bonus is added after the multiplication and is
\* never scaled.  VIP / LOYALTY / REGULAR at $1000 under 2x give final
\* amounts of $700 / $800 / $900.
C1_TierBonusNotScaled ==
    (Calculated /\ context.customerType \in CustomerTypes /\ context.amount >= 0) =>
        LET r == calcResult
            tier == IF context.amount >= 1000 THEN 1000
                    ELSE IF context.amount >= 500 THEN 500 ELSE 0
        IN  /\ r.seasonalMultiplier = (IF context.isPromotionalPeriod THEN 20 ELSE 10)
            /\ r.tierBonus = tier
            /\ ~r.appliedCap =>
                   r.totalDiscount * MultScale
                       = r.baseDiscount * r.seasonalMultiplier + tier * MultScale
            /\ (context.isPromotionalPeriod /\ context.amount = 1000) =>
                   /\ context.customerType = "VIP" =>
                          r.totalDiscount = 3000 /\ r.finalAmount = Money(700)
                   /\ context.customerType = "LOYALTY" =>
                          r.totalDiscount = 2000 /\ r.finalAmount = Money(800)
                   /\ context.customerType = "REGULAR" =>
                          r.totalDiscount = 1000 /\ r.finalAmount = Money(900)

C1_Witness ==
    /\ Calculated
    /\ context.customerType = "VIP"
    /\ context.amount = 1000
    /\ context.isPromotionalPeriod
    /\ calcResult.tierBonus = 1000
    /\ calcResult.finalAmount = Money(700)

\* C2: for REGULAR, LOYALTY and VIP the total discount never exceeds the
\* cap of the type (0.40, 0.50, 0.60); appliedCap is true exactly when the
\* total before capping is strictly greater than the cap, and the total is
\* then the cap.  ENTERPRISE is never capped and never flags appliedCap.
C2_CapEnforced ==
    (Calculated /\ context.customerType \in CustomerTypes) =>
        LET r == calcResult
            preCap == ((r.baseDiscount * r.seasonalMultiplier) \div MultScale) + r.tierBonus
            cap == CASE context.customerType = "REGULAR" -> 4000
                     [] context.customerType = "LOYALTY" -> 5000
                     [] context.customerType = "VIP" -> 6000
                     [] OTHER -> 0
        IN  IF context.customerType = "ENTERPRISE"
            THEN ~r.appliedCap /\ r.totalDiscount = preCap
            ELSE /\ r.totalDiscount <= cap
                 /\ r.appliedCap = (preCap > cap)
                 /\ r.appliedCap => r.totalDiscount = cap
                 /\ ~r.appliedCap => r.totalDiscount = preCap

C2_Witness ==
    /\ Calculated
    /\ context.customerType = "VIP"
    /\ context.isPromotionalPeriod
    /\ context.amount >= 1000
    /\ calcResult.totalDiscount = 3000
    /\ calcResult.totalDiscount <= 6000
    /\ ~calcResult.appliedCap

\* C29: with the rule values built into the calculator the cap is never
\* reached: for every valid customer type, every amount and either
\* promotional flag, appliedCap is false and totalDiscount is the uncapped
\* base * seasonal + tier, at most 0.40.
C29_CapNeverReached ==
    (op \in {"calculated", "calculatedEffective", "calculatedQualified"}
        /\ context.customerType \in CustomerTypes) =>
        LET base == CASE context.customerType = "REGULAR" -> 0
                      [] context.customerType = "LOYALTY" -> 500
                      [] context.customerType = "VIP" -> 1000
                      [] context.customerType = "ENTERPRISE" -> 1500
            seasonal == IF context.isPromotionalPeriod THEN 2 ELSE 1
            tier == IF context.amount >= 1000 THEN 1000
                    ELSE IF context.amount >= 500 THEN 500 ELSE 0
        IN  /\ ~calcResult.appliedCap
            /\ calcResult.totalDiscount = (base * seasonal) + tier
            /\ calcResult.totalDiscount <= 4000

C29_Witness ==
    /\ op = "calculated"
    /\ context.customerType = "ENTERPRISE"
    /\ context.isPromotionalPeriod
    /\ context.amount = 10000
    /\ calcResult.totalDiscount = 4000
    /\ ~calcResult.appliedCap

\* C3: when an order qualifies for a promotional period, the result's
\* seasonalMultiplier is the multiplier of the period matching the order
\* date (2.0 Black Friday and Cyber Monday, 1.5 Holiday Season); ENTERPRISE,
\* $10000, Holiday Season gives totalDiscount 0.325 and finalAmount $6750.
C3_PeriodMultiplier ==
    (/\ op = "calculated"
     /\ context.customerType \in CustomerTypes
     /\ context.isPromotionalPeriod
     /\ context.amount >= 100
     /\ MatchingPeriods(context.orderDate) # {}) =>
        /\ \E p \in MatchingPeriods(context.orderDate) :
               calcResult.seasonalMultiplier = p.seasonalMultiplier
        /\ (/\ context.customerType = "ENTERPRISE"
            /\ context.amount = 10000
            /\ context.orderDate.month = 11
            /\ context.orderDate.date >= 15) =>
               /\ calcResult.totalDiscount = 3250
               /\ calcResult.finalAmount = Money(6750)

\* C4: for every customer type and amount >= 0 outside a promotional period,
\* finalAmount = amount * (1 - min(base + tierBonus(amount), cap)), no cap
\* for ENTERPRISE; originalAmount = amount, savingsAmount = amount -
\* finalAmount, so finalAmount + savingsAmount = originalAmount and
\* 0 <= finalAmount <= originalAmount.
C4_NonPromotionalFinalAmount ==
    (/\ Calculated
     /\ context.customerType \in CustomerTypes
     /\ context.amount >= 0
     /\ ~context.isPromotionalPeriod) =>
        LET r == calcResult
            base == CASE context.customerType = "ENTERPRISE" -> 1500
                      [] context.customerType = "VIP" -> 1000
                      [] context.customerType = "LOYALTY" -> 500
                      [] OTHER -> 0
            tier == IF context.amount >= 1000 THEN 1000
                    ELSE IF context.amount >= 500 THEN 500 ELSE 0
            cap == CASE context.customerType = "REGULAR" -> 4000
                     [] context.customerType = "LOYALTY" -> 5000
                     [] OTHER -> 6000
            rate == IF context.customerType # "ENTERPRISE" /\ base + tier > cap
                    THEN cap ELSE base + tier
        IN  /\ r.finalAmount = context.amount * (Scale - rate)
            /\ r.originalAmount = Money(context.amount)
            /\ r.savingsAmount = r.originalAmount - r.finalAmount
            /\ r.finalAmount + r.savingsAmount = r.originalAmount
            /\ 0 <= r.finalAmount
            /\ r.finalAmount <= r.originalAmount

C4_Witness ==
    /\ Calculated
    /\ context.customerType = "VIP"
    /\ context.amount = 600
    /\ ~context.isPromotionalPeriod
    /\ calcResult.finalAmount = Money(510)
    /\ calcResult.savingsAmount = Money(90)

\* C6: for 0 < amount < 5000 and either promotional flag, the calculator
\* applied to getEffectiveCustomerType('ENTERPRISE', amount) returns exactly
\* the result of a VIP order of the same amount, and validateDiscountRequest
\* reports exactly one downgrade warning and no error; for amount >= 5000 or
\* any other customer type getEffectiveCustomerType returns its input.
C6_DowngradeEquivalence ==
    LET downgraded == requestedType = "ENTERPRISE" /\ context.amount < 5000
    IN  /\ (op = "calculatedEffective" /\ downgraded /\ context.amount > 0) =>
               /\ calcResult = calculateTieredDiscount(
                      [customerType |-> "VIP", amount |-> context.amount,
                       orderDate |-> context.orderDate,
                       isPromotionalPeriod |-> context.isPromotionalPeriod])
               /\ calcResult.baseDiscount = 1000
        /\ (op = "validated" /\ downgraded /\ context.amount > 0) =>
               /\ Count(validation.warnings, WarnDowngrade) = 1
               /\ validation.errors = <<>>
               /\ validation.isValid
        /\ (op \in {"effective", "calculatedEffective"} /\ ~downgraded) =>
               context.customerType = requestedType

C6_Witness ==
    /\ op = "calculatedEffective"
    /\ requestedType = "ENTERPRISE"
    /\ context.customerType = "VIP"
    /\ context.amount = 4999
    /\ calcResult.baseDiscount = 1000
    /\ calcResult.tierBonus = 1000

\* C8: validateDiscountRequest evaluates its rules without short-circuiting:
\* errors holds one entry for amount <= 0 and one entry for an unknown
\* customer type, each exactly when that rule is violated; amount = -5 with
\* customerType = 'BOGUS' yields exactly two errors.
C8_ErrorsAccumulate ==
    op = "validated" =>
        LET amountBad == context.amount <= 0
            typeBad == context.customerType \notin CustomerTypes
        IN  /\ Count(validation.errors, ErrAmount) = (IF amountBad THEN 1 ELSE 0)
            /\ Count(validation.errors, ErrCustomerType) = (IF typeBad THEN 1 ELSE 0)
            /\ Len(validation.errors)
                   = (IF amountBad THEN 1 ELSE 0) + (IF typeBad THEN 1 ELSE 0)
            /\ (context.amount = -5 /\ context.customerType = "BOGUS") =>
                   Len(validation.errors) = 2

C8_Witness ==
    /\ op = "validated"
    /\ context.amount = -5
    /\ context.customerType = "BOGUS"
    /\ validation.errors = <<ErrAmount, ErrCustomerType>>

\* C9: isValid is true exactly when the errors list is empty; warnings never
\* change validity: a valid customer type with a positive amount is valid
\* whatever warnings it raises.
C9_ValidIffNoErrors ==
    op = "validated" =>
        /\ validation.isValid = (Len(validation.errors) = 0)
        /\ (context.customerType \in CustomerTypes /\ context.amount > 0) =>
               validation.isValid

C9_Witness ==
    /\ op = "validated"
    /\ context.customerType = "ENTERPRISE"
    /\ context.amount = 99
    /\ Len(validation.warnings) = 2
    /\ validation.isValid

C12_PromotionalExactlyInDocumentedPeriods ==
    (op = "qualified" /\ context.amount >= 100) =>
        (context.isPromotionalPeriod <=> MatchingPeriods(context.orderDate) # {})

\* C13: the tier bonus is 0 below $500, 0.05 from $500 and below $1000, and
\* 0.10 from $1000, whatever the customer type; it never decreases when the
\* amount grows.
C13_TierBonusByAmountOnly ==
    (op \in {"calculated", "calculatedEffective", "calculatedQualified"}) =>
        /\ calcResult.tierBonus = (IF context.amount < 500 THEN 0
                                   ELSE IF context.amount < 1000 THEN 500
                                   ELSE 1000)
        /\ \A smaller \in Amounts :
               smaller <= context.amount => getTierBonus(smaller) <= calcResult.tierBonus

C13_Witness ==
    /\ op = "calculated"
    /\ context.customerType = "REGULAR"
    /\ context.amount = 999
    /\ calcResult.baseDiscount = 0
    /\ calcResult.tierBonus = 500

----------------------------------------------------------------------------
(* Properties of the calculate-discount endpoint *)

\* a step in which the server answered the request now held in request'
Answered == handled' = handled + 1

\* the answer the server would give, in the state before the step, to req
AnswerTo(req) ==
    calculateDiscountHandler(req, now, promoCodes,
                             [orders |-> orders, customerOrders |-> customerOrders],
                             nextOrderId).response

\* C5: in the calculate-discount flow an ENTERPRISE order with amount < 5000
\* is priced with the downgraded customer type: its discountedAmount equals
\* that of a VIP order of the same amount.
C5_EndpointDowngradesEnterprise ==
    [][(/\ Answered
        /\ request'.customerType = "ENTERPRISE"
        /\ request'.amountIsNumber
        /\ request'.amount < 5000) =>
            LET asVip == AnswerTo([request' EXCEPT !.customerType = "VIP"])
            IN  /\ response'.status = asVip.status
                /\ response'.discountedAmount = asVip.discountedAmount]_vars

\* C7: the endpoint rejects every request whose customerType is not one of
\* REGULAR, LOYALTY, VIP, ENTERPRISE or whose amount is non-numeric or
\* negative: it returns an error, computes no discount, records no order and
\* counts no promo-code use.
C7_EndpointRejectsInvalidInput ==
    [][(/\ Answered
        /\ \/ request'.customerType \notin CustomerTypes
           \/ ~request'.amountIsNumber
           \/ request'.amount < 0) =>
            /\ response'.status = 400
            /\ response'.error # ""
            /\ response'.discountedAmount = 0
            /\ response'.promoCodeDiscount.isNull
            /\ orders' = orders
            /\ customerOrders' = customerOrders
            /\ promoCodes' = promoCodes]_vars

----------------------------------------------------------------------------
(* Properties of the promo code store *)

\* C14: under any interleaving of concurrent calculate-discount requests
\* that redeem the same promo code with saveToHistory set, the code's
\* usageCount never exceeds its usageLimit, and every increment happens in a
\* step that found usageCount below the limit: check and increment are one
\* atomic step.
C14_UsageNeverExceedsLimit ==
    [][\A c \in DOMAIN promoCodes :
          /\ promoCodes'[c].usageLimit # Undefined =>
                 promoCodes'[c].usageCount <= promoCodes'[c].usageLimit
          /\ promoCodes'[c].usageCount # promoCodes[c].usageCount =>
                 /\ promoCodes'[c].usageCount = promoCodes[c].usageCount + 1
                 /\ promoCodes[c].usageLimit # Undefined =>
                        promoCodes[c].usageCount < promoCodes[c].usageLimit]_vars

C14_Witness ==
    /\ promoCodes["BULK50"].usageCount = promoCodes["BULK50"].usageLimit
    /\ request.saveToHistory
    /\ response.status = 400
    /\ response.error = ErrUsageLimit
    /\ \E c \in 1..MaxClients : inflight[c] # NoRequest /\ inflight[c].saveToHistory

C16_IncrementsMatchSavedOrders ==
    \A c \in DOMAIN promoCodes :
        promoCodes[c].usageCount =
            Cardinality({id \in DOMAIN orders : ToUpperCase(orders[id].promoCode) = c})

\* a step that served POST /api/promo-codes/validate, GET /api/promo-codes
\* or a call of getPromoCode
PromoCodeRead ==
    /\ promoCall' # promoCall
    /\ promoCall'.fn \in {"POST /api/promo-codes/validate", "GET /api/promo-codes",
                          "getPromoCode"}

\* a step that handled a calculate-discount request without saveToHistory
Preview ==
    \E c \in 1..MaxClients :
        /\ inflight[c] # NoRequest
        /\ inflight'[c] = NoRequest
        /\ ~inflight[c].saveToHistory

\* C17: validation and preview never change promo-code state: the validate
\* route (and validatePromoCode in it), the list route (getActivePromoCodes),
\* getPromoCode and a calculate-discount request without saveToHistory leave
\* usageCount and every other field of every promo code unchanged, whether
\* the code turns out valid or invalid.
C17_ReadsLeavePromoCodesUnchanged ==
    [][(PromoCodeRead \/ Preview) => promoCodes' = promoCodes]_vars

C17_Witness ==
    /\ promoCall.fn = "POST /api/promo-codes/validate"
    /\ promoCall.validation.isValid
    /\ promoCall.validation.promoCode.code = "BULK50"
    /\ promoCodes["BULK50"].usageCount = 1

\* C24: over any sequence of operations after initialization every promo
\* code's usageCount never decreases, no other field of a promo code ever
\* changes, and no promo code is ever removed from the store.
C24_PromoCodeLifecycle ==
    [][/\ DOMAIN promoCodes \subseteq DOMAIN promoCodes'
       /\ \A c \in DOMAIN promoCodes :
             /\ promoCodes'[c].usageCount >= promoCodes[c].usageCount
             /\ [promoCodes'[c] EXCEPT !.usageCount = promoCodes[c].usageCount]
                    = promoCodes[c]]_vars

C24_Witness ==
    /\ promoCodes["BULK50"].usageCount = 100
    /\ now > promoCodes["BULK50"].validUntil
    /\ promoCodes["BULK50"].active
    /\ promoCall.fn = "GET /api/promo-codes"
    /\ promoCall.promoCodes = {}

\* the errors of all the gate checks of validatePromoCode that fail on the
\* given call, in the order: code exists, active, not yet valid, expired,
\* usage limit reached, minimum order amount, allowed customer type
FailingChecks(store, clock, code, customerType, orderAmount) ==
    IF ToUpperCase(code) \notin DOMAIN store THEN <<ErrInvalidCode>>
    ELSE
    LET promoCode == store[ToUpperCase(code)]
        e2 == PushIf(<<>>, ~promoCode.active, ErrInactive)
        e3 == PushIf(e2, clock < promoCode.validFrom, ErrNotYetValid)
        e4 == PushIf(e3, clock > promoCode.validUntil, ErrExpired)
        e5 == PushIf(e4, promoCode.usageLimit # Undefined
                         /\ promoCode.usageCount >= promoCode.usageLimit, ErrUsageLimit)
        e6 == PushIf(e5, promoCode.minOrderAmount # Undefined
                         /\ orderAmount < promoCode.minOrderAmount, ErrMinOrder)
    IN  PushIf(e6, promoCode.allowedCustomerTypes.defined
                   /\ customerType \notin promoCode.allowedCustomerTypes.types,
               ErrCustomerTypes)

\* C18: validatePromoCode applies its gate checks in the fixed order and
\* stops at the first failing one: an invalid result has isValid = false,
\* exactly one error (that of the first failing check), no warnings and no
\* promoCode; a valid result has no errors and carries the resolved
\* promoCode; the result is valid exactly when no check fails.
C18_FirstFailingCheckOnly ==
    (promoCall.fn = "validatePromoCode") =>
        LET result == promoCall.validation
            failing == FailingChecks(promoCodes, now, promoCall.code,
                                     promoCall.customerType, promoCall.amount)
        IN  /\ result.isValid <=> failing = <<>>
            /\ ~result.isValid =>
                   /\ result.errors = <<Head(failing)>>
                   /\ result.warnings = <<>>
                   /\ result.promoCode = NoPromoCode
            /\ result.isValid =>
                   /\ result.errors = <<>>
                   /\ result.promoCode = promoCodes[ToUpperCase(promoCall.code)]

C18_Witness ==
    /\ promoCall.fn = "validatePromoCode"
    /\ FailingChecks(promoCodes, now, promoCall.code, promoCall.customerType,
                     promoCall.amount)
         = <<ErrExpired, ErrUsageLimit, ErrMinOrder, ErrCustomerTypes>>
    /\ promoCall.validation.errors = <<ErrExpired>>
    /\ ~promoCall.validation.isValid

\* C23: on a successful promo-code validation the warnings are exactly one
\* tier-bonus warning iff the code has disablesTierBonuses and one
\* seasonal-stacking warning iff the code has stacksWithSeasonalMultiplier =
\* false; the result stays valid with no errors.  Of the sample codes VIP25
\* yields both warnings and the others none.
C23_WarningsOnSuccess ==
    (promoCall.fn = "validatePromoCode" /\ promoCall.validation.isValid) =>
        LET result == promoCall.validation
            promoCode == promoCodes[ToUpperCase(promoCall.code)]
            tier == IF promoCode.disablesTierBonuses THEN 1 ELSE 0
            stacking == IF promoCode.stacksWithSeasonalMultiplier THEN 0 ELSE 1
        IN  /\ Count(result.warnings, WarnTierBonuses) = tier
            /\ Count(result.warnings, WarnNoStacking) = stacking
            /\ Len(result.warnings) = tier + stacking
            /\ result.errors = <<>>
            /\ promoCode.code = "VIP25" => Len(result.warnings) = 2
            /\ promoCode.code \in {"WELCOME10", "SAVE20", "BULK50", "FREESHIP"} =>
                   result.warnings = <<>>

C23_Witness ==
    /\ promoCall.fn = "validatePromoCode"
    /\ promoCall.code = "VIP25"
    /\ promoCall.customerType = "VIP"
    /\ promoCall.validation.isValid
    /\ promoCall.validation.errors = <<>>
    /\ promoCall.validation.warnings = <<WarnTierBonuses, WarnNoStacking>>

TierRate(customerType) ==
    CASE customerType = "VIP" -> 1000
      [] customerType = "LOYALTY" -> 500
      [] customerType = "ENTERPRISE" -> 1500
      [] OTHER -> 0

\* C20: in the calculate-discount flow the customer-tier discount is applied
\* first and a percentage promo code is computed on the tier-discounted
\* amount, not on the original one: when no clamp applies the final amount is
\* amount * (1 - tierRate) * (1 - value/100).  VIP, $100, WELCOME10: $90
\* after the tier discount, promo discount $9, final $81.
C20_PromoAfterTierDiscount ==
    (response.status = 200 /\ ~response.promoCodeDiscount.isNull) =>
        LET promoCode == promoCodes[ToUpperCase(request.promoCode)]
            tierAmount == request.amount * (Scale - TierRate(request.customerType))
        IN  (promoCode.discountType = "PERCENTAGE"
                /\ promoCode.maxDiscountAmount = Undefined
                /\ promoCode.discountValue <= 100) =>
              /\ 100 * response.promoCodeDiscount.discountAmount
                     = tierAmount * promoCode.discountValue
              /\ 100 * response.discountedAmount
                     = tierAmount * (100 - promoCode.discountValue)
              /\ (request.customerType = "VIP" /\ request.amount = 100
                     /\ promoCode.code = "WELCOME10") =>
                    /\ response.promoCodeDiscount.discountAmount = Money(9)
                    /\ response.discountedAmount = Money(81)

C20_Witness ==
    /\ request.customerType = "VIP"
    /\ request.amount = 100
    /\ request.promoCode = "welcome10"
    /\ response.status = 200
    /\ response.promoCodeDiscount.discountAmount = Money(9)
    /\ response.discountedAmount = Money(81)

\* C30: in the calculate-discount flow the promo code's eligibility
\* (minOrderAmount, allowedCustomerTypes) is decided on the original order
\* amount and the requested customer type, while its discount is computed on
\* the tier-discounted amount: a usable code is accepted exactly when the
\* original amount meets minOrderAmount and the type is allowed.  VIP, $50,
\* WELCOME10 is accepted and the 10% are taken of $45.
C30_EligibilityOnOriginalAmount ==
    [][(/\ Answered
        /\ request'.customerType # ""
        /\ request'.amountIsNumber
        /\ request'.amount >= 0
        /\ ToUpperCase(request'.promoCode) \in DOMAIN promoCodes) =>
          LET promoCode == promoCodes[ToUpperCase(request'.promoCode)]
              usable == /\ promoCode.active
                        /\ now >= promoCode.validFrom
                        /\ now <= promoCode.validUntil
                        /\ (promoCode.usageLimit = Undefined
                               \/ promoCode.usageCount < promoCode.usageLimit)
              eligible == /\ (promoCode.minOrderAmount = Undefined
                                 \/ request'.amount >= promoCode.minOrderAmount)
                          /\ (~promoCode.allowedCustomerTypes.defined
                                 \/ request'.customerType
                                       \in promoCode.allowedCustomerTypes.types)
              tierAmount == request'.amount * (Scale - TierRate(request'.customerType))
          IN  usable =>
                /\ (response'.status = 200) <=> eligible
                /\ (eligible /\ promoCode.discountType = "PERCENTAGE"
                      /\ promoCode.maxDiscountAmount = Undefined
                      /\ promoCode.discountValue <= 100) =>
                       100 * response'.promoCodeDiscount.discountAmount
                          = tierAmount * promoCode.discountValue
                /\ (request'.customerType = "VIP" /\ request'.amount = 50
                       /\ promoCode.code = "WELCOME10") =>
                      /\ response'.status = 200
                      /\ 10 * response'.promoCodeDiscount.discountAmount = Money(45)]_vars

C30_Witness ==
    /\ request.customerType = "VIP"
    /\ request.amount = 50
    /\ request.promoCode = "welcome10"
    /\ response.status = 200
    /\ response.promoCodeDiscount.discountAmount = 45000
    /\ response.discountedAmount = 405000

\* the stored orders of a customer
StoredOrdersOf(stored, customerId) ==
    {stored[id] : id \in {i \in DOMAIN stored : stored[i].customerId = customerId}}

\* a step that is a call of deleteOrder or getCustomerOrders: no order id is
\* handed out and no time passes
OrderStoreCalled == nextOrderId' = nextOrderId /\ now' = now

\* C28: the per-customer index of the order history stays consistent: after
\* any sequence of addOrder (with pairwise distinct ids) and deleteOrder,
\* getCustomerOrders(c) returns exactly the stored orders whose customerId is
\* c, each of them once; deleteOrder of an id the store does not hold returns
\* false and changes nothing.
C28_OrderIndexConsistent ==
    [][/\ \A c \in OrderCustomerIds \cup {"CUST-003"} :
            LET result == getCustomerOrders([orders |-> orders',
                                             customerOrders |-> customerOrders'], c)
            IN  /\ {result[i] : i \in 1..Len(result)} = StoredOrdersOf(orders', c)
                /\ Len(result) = Cardinality(StoredOrdersOf(orders', c))
       /\ (OrderStoreCalled /\ orderCall'.fn = "getCustomerOrders") =>
             /\ {orderCall'.orders[i] : i \in 1..Len(orderCall'.orders)}
                   = StoredOrdersOf(orders, orderCall'.customerId)
             /\ Len(orderCall'.orders)
                   = Cardinality(StoredOrdersOf(orders, orderCall'.customerId))
       /\ (OrderStoreCalled /\ orderCall'.fn = "deleteOrder") =>
             /\ orderCall'.found = (orderCall'.id \in DOMAIN orders)
             /\ ~orderCall'.found => UNCHANGED <<orders, customerOrders>>
             /\ orderCall'.found => orderCall'.id \notin DOMAIN orders']_vars

C28_Witness ==
    /\ orderCall.fn = "getCustomerOrders"
    /\ orderCall.customerId = "CUST-001"
    /\ Len(orderCall.orders) = 2
    /\ orderCall.orders[1].timestamp > orderCall.orders[2].timestamp
    /\ orderCall.orders[1].id > orderCall.orders[2].id
    /\ Cardinality(DOMAIN orders) = 2
    /\ nextOrderId = MaxOrders + 1

\* no two stored customers share an e-mail address compared
\* case-insensitively, and emailIndex has exactly one entry per stored
\* customer, from the lower-cased e-mail to the id
EmailsUniqueAndIndexed(stored, index) ==
    /\ \A i \in DOMAIN stored : \A j \in DOMAIN stored :
          i # j => ToLowerCase(stored[i].email) # ToLowerCase(stored[j].email)
    /\ DOMAIN index = {ToLowerCase(stored[i].email) : i \in DOMAIN stored}
    /\ \A i \in DOMAIN stored : index[ToLowerCase(stored[i].email)] = i

\* C25: the customer store keeps e-mails unique case-insensitively: after any
\* sequence of createCustomer, updateCustomer and deleteCustomer no two stored
\* customers share an e-mail address compared case-insensitively, and
\* emailIndex holds exactly one entry per stored customer, mapping the
\* lower-cased e-mail to the customer's id; a create or update rejected with
\* 'already exists' leaves customers and emailIndex unchanged.
C25_EmailsUniqueAndIndexed ==
    [][/\ EmailsUniqueAndIndexed(customers', emailIndex')
       /\ (customerCall'.outcome = "threw") => UNCHANGED <<customers, emailIndex>>]_vars

\* C21: after any sequence of addItem, updateItemQuantity and removeItem
\* every line of every cart has
\* subtotal = unitPrice * (1 - categoryDiscount / 100) * quantity.
C21_LineSubtotalDiscounted ==
    \A id \in DOMAIN carts : \A i \in 1..Len(carts[id].items) :
        LET item == carts[id].items[i]
        IN  100 * item.subtotal
               = item.unitPrice * (100 - item.categoryDiscount) * item.quantity

\* C22: calculateCartSummary returns null for an unknown cart and otherwise
\* itemCount = the sum of the quantities, subtotal = the sum of unitPrice *
\* quantity, categoryDiscounts = subtotal - the sum of the line subtotals,
\* tierDiscount = 0, promoCodeDiscount = 0, totalDiscount = categoryDiscounts
\* and finalTotal = subtotal - totalDiscount.
C22_CartSummaryTotals ==
    (cartCall.fn = "calculateCartSummary") =>
        IF cartCall.cartId \notin DOMAIN carts
        THEN cartCall.isNull
        ELSE LET items == carts[cartCall.cartId].items
                 summary == cartCall.summary
             IN  /\ ~cartCall.isNull
                 /\ summary.itemCount = Sum([i \in 1..Len(items) |-> items[i].quantity])
                 /\ summary.subtotal
                       = Sum([i \in 1..Len(items) |->
                                 items[i].unitPrice * items[i].quantity])
                 /\ summary.categoryDiscounts
                       = summary.subtotal
                            - Sum([i \in 1..Len(items) |-> items[i].subtotal])
                 /\ summary.tierDiscount = 0
                 /\ summary.promoCodeDiscount = 0
                 /\ summary.totalDiscount = summary.categoryDiscounts
                 /\ summary.finalTotal = summary.subtotal - summary.totalDiscount

C22_Witness ==
    /\ cartCall.fn = "calculateCartSummary"
    /\ ~cartCall.isNull
    /\ Len(carts[cartCall.cartId].items) = 2
    /\ cartCall.summary.itemCount = 3
    /\ cartCall.summary.subtotal = 4799700
    /\ cartCall.summary.categoryDiscounts = 199990
    /\ cartCall.summary.finalTotal = 4599710

\* C26: there is one cart per customer: customerCarts maps each customer to
\* at most one cart id, that cart exists in carts and carries that
\* customerId; getOrCreateCart for a customer who has a cart returns that
\* cart with its items unchanged and creates nothing; deleteCart removes both
\* the cart and the customer's mapping.
C26_OneCartPerCustomer ==
    [][/\ \A c \in DOMAIN customerCarts' :
            /\ customerCarts'[c] \in DOMAIN carts'
            /\ carts'[customerCarts'[c]].customerId = c
       /\ \A id \in DOMAIN carts' :
            /\ carts'[id].customerId \in DOMAIN customerCarts'
            /\ customerCarts'[carts'[id].customerId] = id
       /\ (now' = now /\ cartCall'.fn = "getOrCreateCart"
             /\ cartCall'.customerId \in DOMAIN customerCarts) =>
            /\ cartCall'.cart = carts[customerCarts[cartCall'.customerId]]
            /\ UNCHANGED <<carts, customerCarts, nextCartId>>
       /\ (now' = now /\ cartCall'.fn = "deleteCart" /\ cartCall'.cartId \in DOMAIN carts) =>
            /\ cartCall'.deleted
            /\ cartCall'.cartId \notin DOMAIN carts'
            /\ carts[cartCall'.cartId].customerId \notin DOMAIN customerCarts']_vars

C26_Witness ==
    /\ cartCall.fn = "getOrCreateCart"
    /\ cartCall.customerId = "CUST-002"
    /\ cartCall.cart.items # <<>>
    /\ cartCall.cart.createdAt < now
    /\ cartCall.cart = carts[customerCarts["CUST-002"]]
    /\ Cardinality(DOMAIN carts) = 2
    /\ nextCartId = MaxCarts + 1

\* C27: after any sequence of addItem, updateItemQuantity, removeItem and
\* clearCart a cart holds at most one line per productId and every line has
\* a quantity > 0; an operation on an unknown cart, an unknown product or a
\* line the cart does not hold returns null and changes no cart.
C27_LinesWellFormed ==
    [][/\ \A id \in DOMAIN carts' :
            LET items == carts'[id].items
            IN  /\ \A i \in 1..Len(items) : \A j \in 1..Len(items) :
                      items[i].productId = items[j].productId => i = j
                /\ \A i \in 1..Len(items) : items[i].quantity > 0
       /\ (/\ cartCall'.fn \in {"addItem", "updateItemQuantity", "removeItem", "clearCart"}
           /\ \/ cartCall'.cartId \notin DOMAIN carts
              \/ cartCall'.fn = "addItem" /\ getProduct(cartCall'.productId).isNull
              \/ /\ cartCall'.fn \in {"updateItemQuantity", "removeItem"}
                 /\ cartCall'.cartId \in DOMAIN carts
                 /\ FindItem(carts[cartCall'.cartId].items, cartCall'.productId) = 0) =>
            /\ cartCall'.isNull
            /\ UNCHANGED carts]_vars

====
